---- MODULE Spec2Model ----
(***************************************************************************)
(* Model of the user-space engine of the Smart Home firewall:              *)
(*   - the timeout gate and the activity-period gate    (src/src/nfqueue.c) *)
(*   - the DNS domain name -> IP addresses cache        (src/src/dns_map.c) *)
(*   - the netfilter queue worker and its inner callback (src/src/nfqueue.c)*)
(* Each part has its own specification over the variables of that part;    *)
(* the variables of the other parts then keep their initial value.         *)
(***************************************************************************)
EXTENDS Integers, Sequences, FiniteSets, TLC

VARIABLES
    \* ---- is_timedout (nfqueue.c:223-249)
    threshold,          \* double threshold (whole seconds)
    last_request,       \* time_t last_request, 0 = no request yet
    now,                \* value returned by time(NULL)
    timedout,           \* the returned bool, once tpc = "done"
    tpc,                \* "call" before is_timedout is called, then "done"
    \* ---- previous_trigger / is_in_activity_period (nfqueue.c:313-395)
    start,              \* ActivityPeriod.start, as its space-separated tokens
    duration,           \* ActivityPeriod.duration, as its tokens
    current_time,       \* time_t current_time
    check_tm,           \* struct tm *check_tm (the static buffer of localtime)
    current_day,        \* int current_day
    current_dayOfWeek,  \* int current_dayOfWeek
    current_hour,       \* int current_hour
    start_time,         \* time_t start_time, -1 before it is computed
    in_period,          \* the returned bool, once ppc = "done"
    ppc,                \* position in is_in_activity_period
    \* ---- bind_queue / nfqueue_callback (nfqueue.c:38-201)
    kqueue,             \* packets the kernel has queued, not yet received
    next_id,            \* the packet id the kernel assigns next
    qpc,                \* position of the worker in bind_queue
    setup,              \* the set-up calls that succeeded, in call order
    exit_status,        \* -1 while the process runs, then the exit status
    enobufs,            \* number of receives that failed with ENOBUFS
    nfad,               \* struct nfq_data *nfad: the packet being handled
    pkt_id,             \* int pkt_id
    length,             \* int length
    verdict,            \* uint32_t verdict
    received,           \* packets received, in order (history)
    handed,             \* packets handed to the policy callback (history)
    verdicts,           \* calls of nfq_set_verdict, in order (history)
    \* ---- DNS cache (dns_map.c)
    strs,               \* the callers' name strings: pointer -> content
    heap,               \* malloc'ed arrays of ip_addr_t: pointer -> block
    table,              \* dns_map_t *table: the entries of the hashmap
    fault,              \* "none", or the memory fault that has happened
    adds,               \* number of dns_map_add calls made
    passed,             \* the arrays the callers have passed to dns_map_add
    touched,            \* number of times a caller wrote to or freed what
                        \* it had passed
    expect,             \* per name: added and not removed since, and the
                        \* addresses added since then, in call order (history)
    last_call,          \* the last call made on the table (history)
    \* ---- worker threads that add to the shared DNS cache
    interaction,        \* worker -> the interaction its policy belongs to
    mutex,              \* interaction -> the worker holding its mutex, or 0
    wpc,                \* worker -> its position in dns_map_add
    wloc,               \* worker -> the arguments and locals of its call
    \* ---- the payload handed to a parser
    data,               \* uint8_t *data: the bytes of the buffer
    max_read,           \* highest index of data read so far, -1 for none
    \* ---- DNS parser (parsers/dns.c)
    dpc,                \* position in dns_parse_message / dns_free_message
    offset,             \* uint16_t offset
    message,            \* dns_message_t message: header, questions, answers
    idx,                \* loop index i of dns_parse_questions / dns_parse_rrs
    name_st,            \* locals of dns_parse_domain_name
    cur,                \* the question or record being parsed
    blocks,             \* number of heap blocks allocated by the parse
    free_calls,         \* the pointers passed to free, in order
    dfault,             \* "none", or the memory fault that has happened
    \* ---- dns_get_ip_from_name (parsers/dns.c)
    lk_answers,         \* dns_resource_record_t *answers, ancount = its length
    lk_name,            \* char *domain_name
    lk_result,          \* the returned ip_list_t
    lpc,                \* "call" before the call, then "done"
    \* ---- http_parse_message (parsers/http.c)
    dst_port,           \* TCP destination port
    hpc,                \* "method", "uri", "done" or "fault"
    http_offset,        \* uint16_t offset
    http_uri,           \* the buffer http_parse_uri fills
    http_message,       \* the http_message_t returned
    \* ---- coap_parse_message (parsers/coap.c)
    coap_options,       \* the options the buffer was encoded from, if any
    cpc,                \* "header", "options", "done" or "fault"
    coap_pos,           \* uint8_t *data, as an index into the buffer
    option_num,         \* uint16_t option_num
    bytes_read,         \* uint16_t bytes_read
    msg_length,         \* uint16_t msg_length
    coap_turn,          \* parity of the turns of the loop over the options
    coap_message,       \* the coap_message_t returned
    \* ---- dhcp_parse_options, dhcp_free_message (parsers/dhcp.c)
    dhpc,               \* "cookie", "options", "parsed", "freed" or "fault"
    dhcp_offset,        \* uint16_t offset
    max_option_count,   \* uint8_t max_option_count
    dhcp_options,       \* the dhcp_options_t returned
    dhcp_allocs,        \* number of blocks allocated, numbered from 1
    dhcp_frees,         \* the blocks passed to free, in order
    \* ---- delete_nft_rule (rule_utils.c)
    nft_rules,          \* the rules of the chain: text and handle of each
    nft_rule,           \* char *nft_rule, the text of the rule to delete
    rpc,                \* "list", "handle", "delete", "done" or "fault"
    nft_buf,            \* the output of the list command
    nft_handle,         \* int16_t handle
    nft_cmds,           \* the commands run so far, in order
    nft_result          \* the bool returned, once rpc = "done"

timeoutVars == <<threshold, last_request, now, timedout, tpc>>
periodVars  == <<start, duration, current_time, check_tm, current_day,
                 current_dayOfWeek, current_hour, start_time, in_period, ppc>>
queueVars   == <<kqueue, next_id, qpc, setup, exit_status, enobufs, nfad,
                 pkt_id, length, verdict, received, handed, verdicts>>
dnsVars     == <<strs, heap, table, fault, adds, passed, touched, expect,
                 last_call>>
workerVars  == <<interaction, mutex, wpc, wloc>>
dnsParseVars == <<dpc, offset, message, idx, name_st, cur, blocks, free_calls,
                  dfault>>
lookupVars  == <<lk_answers, lk_name, lk_result, lpc>>
httpVars    == <<dst_port, hpc, http_offset, http_uri, http_message>>
coapVars    == <<coap_options, cpc, coap_pos, option_num, bytes_read,
                 msg_length, coap_turn, coap_message>>
dhcpVars    == <<dhpc, dhcp_offset, max_option_count, dhcp_options,
                 dhcp_allocs, dhcp_frees>>
nftVars     == <<nft_rules, nft_rule, rpc, nft_buf, nft_handle, nft_cmds,
                 nft_result>>
restVars    == <<httpVars, coapVars, dhcpVars, nftVars>>
parserVars  == <<data, max_read, dnsParseVars, lookupVars, restVars>>
vars == <<timeoutVars, periodVars, queueVars, dnsVars, workerVars, parserVars>>

(***************************************************************************)
(* Timeout gate                                                            *)
(***************************************************************************)
DEFAULT_TIMEOUT == 3600

\* Largest small threshold and largest small elapsed time that are tried.
MaxSmall == 3

\* A time of day at which a last request was made (any non-zero time_t).
BaseTime == 100000

\* difftime(time1, time0): the difference in seconds
difftime(time1, time0) == time1 - time0

\* Mutant: the comparison is not strict.
is_timedout_le(thr, last, t) ==
    IF last = 0 \/ thr = -1
    THEN FALSE
    ELSE LET th == IF thr = 0 THEN DEFAULT_TIMEOUT ELSE thr
         IN  th <= difftime(t, last)

\* bool is_timedout(double threshold, time_t last_request), with t = time(NULL)
is_timedout(thr, last, t) ==
    IF last = 0 \/ thr = -1
    THEN FALSE
    ELSE LET th == IF thr = 0 THEN DEFAULT_TIMEOUT ELSE thr
         IN  th < difftime(t, last)

Thresholds ==
    ((0 - MaxSmall) .. MaxSmall)
        \cup ((DEFAULT_TIMEOUT - 1) .. (DEFAULT_TIMEOUT + 1))

Elapsed ==
    (-1 .. MaxSmall) \cup ((DEFAULT_TIMEOUT - 1) .. (DEFAULT_TIMEOUT + 1))

InitTimeout ==
    /\ threshold \in Thresholds
    /\ last_request \in {0, BaseTime}
    /\ now \in {BaseTime + e : e \in Elapsed}
    /\ timedout = FALSE
    /\ tpc = "call"

InitTimeoutIdle ==
    /\ threshold = 0
    /\ last_request = 0
    /\ now = BaseTime
    /\ timedout = FALSE
    /\ tpc = "call"

\* One call of is_timedout(threshold, last_request).
IsTimedout ==
    /\ tpc = "call"
    /\ timedout' = is_timedout(threshold, last_request, now)
    /\ tpc' = "done"
    /\ UNCHANGED <<threshold, last_request, now>>
    /\ UNCHANGED <<periodVars, queueVars, dnsVars, workerVars, parserVars>>

(***************************************************************************)
(* Calendar: localtime and mktime of the C library, for a time zone        *)
(* without daylight saving (local time = UTC).                             *)
(***************************************************************************)
SecPerMin  == 60
SecPerHour == 3600
SecPerDay  == 86400

\* Days from 1970-01-01 to the civil date y-m-d (m in 1..12), proleptic
\* Gregorian calendar.
DaysFromCivil(y, m, d) ==
    LET yy  == IF m <= 2 THEN y - 1 ELSE y
        era == yy \div 400
        yoe == yy - era * 400
        mp  == IF m > 2 THEN m - 3 ELSE m + 9
        doy == (153 * mp + 2) \div 5 + d - 1
        doe == yoe * 365 + yoe \div 4 - yoe \div 100 + doy
    IN  era * 146097 + doe - 719468

\* The civil date of day number z: [year, mon (0..11), mday].
CivilFromDays(z) ==
    LET zz  == z + 719468
        era == zz \div 146097
        doe == zz - era * 146097
        yoe == (doe - doe \div 1460 + doe \div 36524 - doe \div 146096) \div 365
        doy == doe - (365 * yoe + yoe \div 4 - yoe \div 100)
        mp  == (5 * doy + 2) \div 153
        d   == doy - (153 * mp + 2) \div 5 + 1
        m   == IF mp < 10 THEN mp + 3 ELSE mp - 9
        y   == yoe + era * 400 + (IF m <= 2 THEN 1 ELSE 0)
    IN  [year |-> y, mon |-> m - 1, mday |-> d]

\* time_t mktime(struct tm *): the time of the (possibly out of range)
\* fields; tm_wday is ignored on input.
mktime(tm) ==
    LET months == tm.year * 12 + tm.mon
        y      == months \div 12
        m      == months % 12
        days   == DaysFromCivil(y, m + 1, 1) + (tm.mday - 1)
    IN  days * SecPerDay + tm.hour * SecPerHour + tm.min * SecPerMin + tm.sec

\* struct tm *localtime(const time_t *)
localtime(t) ==
    LET days == t \div SecPerDay
        rem  == t % SecPerDay
        c    == CivilFromDays(days)
    IN  [sec  |-> rem % SecPerMin,
         min  |-> (rem % SecPerHour) \div SecPerMin,
         hour |-> rem \div SecPerHour,
         mday |-> c.mday, mon |-> c.mon, year |-> c.year,
         wday |-> (days + 4) % 7]

\* The struct tm as mktime leaves it: every field brought into range and
\* tm_wday set.
Normalized(tm) == localtime(mktime(tm))

(***************************************************************************)
(* Activity-period gate                                                    *)
(***************************************************************************)
\* Largest number that is tried as a field of a period string.
MaxField == 59

\* int atoi(const char *): the number a string of decimal digits denotes
atoi(token) == CHOOSE n \in 0 .. MaxField : ToString(n) = token

\* void parse_period(period_str, &minutes, &hours, &days, &dayOfWeek,
\* is_duration): the four space-separated fields, "*" read as 0 in a
\* duration and as -1 in a start.
parse_period(period_str, is_duration) ==
    LET value(token) ==
            IF token = "*"
            THEN (IF is_duration THEN 0 ELSE -1)
            ELSE atoi(token)
    IN  [minutes   |-> value(period_str[1]),
         hours     |-> value(period_str[2]),
         days      |-> value(period_str[3]),
         dayOfWeek |-> value(period_str[4])]

\* int getDayOfWeek(time_t time)
getDayOfWeek(time) == localtime(time).wday

\* The non-"*" fields of the start overwrite those of the current date
\* (tm_sec is set to 0).
SetFixedFields(tm, p) ==
    [tm EXCEPT !.sec  = 0,
               !.min  = IF p.minutes # -1 THEN p.minutes ELSE @,
               !.hour = IF p.hours # -1 THEN p.hours ELSE @,
               !.mday = IF p.days # -1 THEN p.days ELSE @]

\* The condition of the while loop of previous_trigger.
LoopCond(tm, t, p) ==
    \/ mktime(tm) > t
    \/ (p.dayOfWeek # -1 /\ getDayOfWeek(mktime(tm)) # p.dayOfWeek)

\* Mutant: with a fixed hour the walk goes back one hour, not one day.
WalkBackHour(tm, p) ==
    IF p.days # -1 THEN [tm EXCEPT !.mon = @ - 1]
    ELSE IF p.dayOfWeek # -1 THEN [tm EXCEPT !.mday = @ - 1]
    ELSE IF p.hours # -1 THEN [tm EXCEPT !.hour = @ - 1]
    ELSE IF p.minutes # -1 THEN [tm EXCEPT !.hour = @ - 1]
    ELSE tm

\* Mutant: with a fixed day of the week and no fixed day of the month the
\* candidate is left where it is.
WalkBackStalled(tm, p) ==
    IF p.days # -1 THEN [tm EXCEPT !.mon = @ - 1]
    ELSE IF p.dayOfWeek # -1 THEN tm
    ELSE IF p.hours # -1 THEN [tm EXCEPT !.mday = @ - 1]
    ELSE IF p.minutes # -1 THEN [tm EXCEPT !.hour = @ - 1]
    ELSE tm

\* The body of the while loop: one step back of the most significant fixed
\* field.
WalkBack(tm, p) ==
    IF p.days # -1 THEN [tm EXCEPT !.mon = @ - 1]
    ELSE IF p.dayOfWeek # -1 THEN [tm EXCEPT !.mday = @ - 1]
    ELSE IF p.hours # -1 THEN [tm EXCEPT !.mday = @ - 1]
    ELSE IF p.minutes # -1 THEN [tm EXCEPT !.hour = @ - 1]
    ELSE tm

\* Mutant: the "*" minute below a fixed hour is pulled to 59 whether or not
\* the hour moved.
PullWildcardsAlways(tm, p, cday, cdow, chour) ==
    LET a == IF p.hours # -1 /\ p.minutes = -1
             THEN [tm EXCEPT !.min = 59] ELSE tm
        b == IF p.days # -1 /\ cday # a.mday
             THEN [a EXCEPT !.hour = IF p.hours = -1 THEN 23 ELSE @,
                            !.min  = IF p.minutes = -1 THEN 59 ELSE @]
             ELSE a
        c == IF p.dayOfWeek # -1 /\ cdow # b.wday
             THEN [b EXCEPT !.hour = IF p.hours = -1 THEN 23 ELSE @,
                            !.min  = IF p.minutes = -1 THEN 59 ELSE @]
             ELSE b
    IN  c

\* After the loop: the "*" fields below a fixed field that moved are pulled
\* to 59 and 23.
PullWildcards(tm, p, cday, cdow, chour) ==
    LET a == IF p.hours # -1 /\ chour # tm.hour /\ p.minutes = -1
             THEN [tm EXCEPT !.min = 59] ELSE tm
        b == IF p.days # -1 /\ cday # a.mday
             THEN [a EXCEPT !.hour = IF p.hours = -1 THEN 23 ELSE @,
                            !.min  = IF p.minutes = -1 THEN 59 ELSE @]
             ELSE a
        c == IF p.dayOfWeek # -1 /\ cdow # b.wday
             THEN [b EXCEPT !.hour = IF p.hours = -1 THEN 23 ELSE @,
                            !.min  = IF p.minutes = -1 THEN 59 ELSE @]
             ELSE b
    IN  c

\* end_time of is_in_activity_period
end_time(start_t, d) ==
    start_t + d.minutes * SecPerMin + d.hours * SecPerHour + d.days * SecPerDay

StartFields == parse_period(start, FALSE)
DurationFields == parse_period(duration, TRUE)

\* The start patterns and durations that are tried.
Starts ==
    {<<mi, h, d, w>> : mi \in {"*", "0", "30"}, h \in {"*", "9"},
                       d \in {"*", "15", "31"}, w \in {"*", "5"}}

Durations ==
    {<<"0", "1", "*", "*">>, <<"30", "*", "*", "*">>,
     <<"*", "*", "1", "*">>, <<"*", "*", "*", "*">>}

\* The current times that are tried: days of March 2024.
CurrentTimes ==
    {mktime([sec |-> s, min |-> mi, hour |-> h, mday |-> d, mon |-> 2,
             year |-> 2024, wday |-> 0]) :
        s \in {0, 30}, mi \in {0, 15, 30, 45}, h \in {0, 8, 9, 10, 23},
        d \in {1, 15, 31}}

TmIdle == [sec |-> 0, min |-> 0, hour |-> 0, mday |-> 1, mon |-> 0,
           year |-> 1970, wday |-> 4]

InitPeriodWith(S, D, T) ==
    /\ start \in S
    /\ duration \in D
    /\ current_time \in T
    /\ check_tm = TmIdle
    /\ current_day = 0
    /\ current_dayOfWeek = 0
    /\ current_hour = 0
    /\ start_time = -1
    /\ in_period = FALSE
    /\ ppc = "call"

InitPeriod == InitPeriodWith(Starts, Durations, CurrentTimes)

\* The start patterns tried for previous_trigger alone: every day of the
\* week, and days of the month that some months do not have.
TriggerStarts ==
    {<<mi, h, d, w>> : mi \in {"*", "0", "30"}, h \in {"*", "9"},
                       d \in {"*", "1", "15", "29", "30", "31"},
                       w \in {"*", "0", "1", "2", "3", "4", "5", "6"}}

\* The current times tried for previous_trigger alone: days of February,
\* March and May of a common and of a leap year.
TriggerTimes ==
    {mktime([sec |-> s, min |-> mi, hour |-> h, mday |-> d, mon |-> mo,
             year |-> y, wday |-> 0]) :
        s \in {0, 30}, mi \in {0, 45}, h \in {0, 9, 23}, d \in {1, 15, 28},
        mo \in {1, 2, 4}, y \in {2023, 2024}}

\* No call of is_in_activity_period has been made.
InitTrigger ==
    /\ start = <<"*", "*", "*", "*">>
    /\ duration = <<"*", "*", "*", "*">>
    /\ current_time = 0
    /\ check_tm = TmIdle
    /\ current_day = 0
    /\ current_dayOfWeek = 0
    /\ current_hour = 0
    /\ start_time = -1
    /\ in_period = FALSE
    /\ ppc = "idle"

\* is_in_activity_period is called with an activity period and the current
\* time, and calls previous_trigger (nfqueue.c:384-386).
TriggerCallWith(S, T) ==
    /\ ppc = "idle"
    /\ start' \in S
    /\ current_time' \in T
    /\ ppc' = "call"
    /\ UNCHANGED <<duration, check_tm, current_day, current_dayOfWeek,
                   current_hour, start_time, in_period>>
    /\ UNCHANGED <<timeoutVars, queueVars, dnsVars, workerVars, parserVars>>

TriggerCall == TriggerCallWith(TriggerStarts, TriggerTimes)

\* The start patterns and current times for which the end of the walk is
\* checked: each branch of the loop body, alone and with both day fields
\* fixed.
WalkStarts ==
    {<<"*", h, d, w>> : h \in {"*", "9"}, d \in {"*", "1", "15", "31"},
                        w \in {"*", "2", "5"}}
        \cup {<<"30", "*", "*", "*">>, <<"30", "9", "*", "*">>,
              <<"30", "9", "31", "5">>}

WalkTimes ==
    {mktime([sec |-> 30, min |-> 45, hour |-> h, mday |-> d, mon |-> mo,
             year |-> y, wday |-> 0]) :
        h \in {0, 9}, d \in {1, 28}, mo \in {1, 4}, y \in {2023, 2024}}

WalkCall == TriggerCallWith(WalkStarts, WalkTimes)

InitPeriodIdle ==
    InitPeriodWith({<<"*", "*", "*", "*">>}, {<<"*", "*", "*", "*">>}, {0})

\* previous_trigger up to its loop (nfqueue.c:314-331).
PreviousTriggerBegin ==
    /\ ppc = "call"
    /\ LET tm == localtime(current_time)
       IN  /\ current_day' = tm.mday
           /\ current_dayOfWeek' = tm.wday
           /\ current_hour' = tm.hour
           /\ check_tm' = SetFixedFields(tm, StartFields)
    /\ ppc' = "loop"
    /\ UNCHANGED <<start, duration, current_time, start_time, in_period>>
    /\ UNCHANGED <<timeoutVars, queueVars, dnsVars, workerVars, parserVars>>

\* One iteration of the loop (nfqueue.c:333-350); mktime in the condition
\* has normalized *check_tm.
PreviousTriggerStep ==
    /\ ppc = "loop"
    /\ LoopCond(check_tm, current_time, StartFields)
    /\ check_tm' = WalkBack(Normalized(check_tm), StartFields)
    /\ UNCHANGED <<start, duration, current_time, current_day,
                   current_dayOfWeek, current_hour, start_time, in_period,
                   ppc>>
    /\ UNCHANGED <<timeoutVars, queueVars, dnsVars, workerVars, parserVars>>

\* The loop ends; previous_trigger returns and is_in_activity_period
\* compares (nfqueue.c:352-374, 387-394).
PeriodReturn ==
    /\ ppc = "loop"
    /\ ~LoopCond(check_tm, current_time, StartFields)
    /\ LET tm == PullWildcards(Normalized(check_tm), StartFields, current_day,
                               current_dayOfWeek, current_hour)
           st == mktime(tm)
       IN  /\ check_tm' = Normalized(tm)
           /\ start_time' = st
           /\ in_period' = (st <= current_time
                            /\ current_time < end_time(st, DurationFields))
    /\ ppc' = "done"
    /\ UNCHANGED <<start, duration, current_time, current_day,
                   current_dayOfWeek, current_hour>>
    /\ UNCHANGED <<timeoutVars, queueVars, dnsVars, workerVars, parserVars>>

(***************************************************************************)
(* Queue worker: bind_queue and nfqueue_callback                           *)
(***************************************************************************)
\* Number of packets the kernel queues.
MaxPackets == 3

\* Number of receives that fail with ENOBUFS.
MaxEnobufs == 2

\* The verdicts a policy callback returns.
Verdicts == {"NF_ACCEPT", "NF_DROP"}

\* No packet is being handled.
NoPacket == [id |-> 0, has_hdr |-> FALSE, has_payload |-> FALSE, len |-> 0]

\* The packets the kernel can queue under id n: with or without a readable
\* packet header, with or without a readable payload.
Packets(n) ==
    {[id |-> n, has_hdr |-> h, has_payload |-> pl, len |-> n] :
        h \in BOOLEAN, pl \in BOOLEAN}

\* int get_pkt_id(struct nfq_data *nfad)
get_pkt_id(nfa) == IF nfa.has_hdr THEN nfa.id ELSE -1

\* int nfq_get_payload(nfad, &payload): the length, or -1
nfq_get_payload(nfa) == IF nfa.has_payload THEN nfa.len ELSE -1

\* Mutant: the verdict of the callback is dropped, the initial value is sent.
SentVerdictInitial(ret) == "NF_ACCEPT"

\* The verdict nfqueue_callback passes to nfq_set_verdict: the value the
\* policy callback returned.
SentVerdict(ret) == ret

\* Mutant: the verdict is left for later and the worker receives again.
AfterPolicyDeferred == "recv"

\* Where nfqueue_callback goes once the policy callback has returned:
\* straight to nfq_set_verdict.
AfterPolicy == "set_verdict"

InitQueue ==
    /\ kqueue = <<>>
    /\ next_id = 1
    /\ qpc = "nfq_open"
    /\ setup = <<>>
    /\ exit_status = -1
    /\ enobufs = 0
    /\ nfad = NoPacket
    /\ pkt_id = 0
    /\ length = 0
    /\ verdict = "NF_ACCEPT"
    /\ received = <<>>
    /\ handed = <<>>
    /\ verdicts = <<>>

\* The kernel queues one more packet for this queue.
KernelEnqueue ==
    /\ next_id <= MaxPackets
    /\ exit_status = -1
    /\ \E p \in Packets(next_id) : kqueue' = Append(kqueue, p)
    /\ next_id' = next_id + 1
    /\ UNCHANGED <<qpc, setup, exit_status, enobufs, nfad, pkt_id, length,
                   verdict, received, handed, verdicts>>
    /\ UNCHANGED <<timeoutVars, periodVars, dnsVars, workerVars, parserVars>>

\* Mutant: a failed set-up call is only logged, whichever call it is.
SetupCallLenient(at, to, fatal) ==
    /\ qpc = at
    /\ \E ok \in BOOLEAN :
          /\ setup' = IF ok THEN Append(setup, at) ELSE setup
          /\ qpc' = to
    /\ UNCHANGED <<kqueue, next_id, exit_status, enobufs, nfad, pkt_id, length,
                   verdict, received, handed, verdicts>>
    /\ UNCHANGED <<timeoutVars, periodVars, dnsVars, workerVars, parserVars>>

\* A set-up call of bind_queue at position at: when it succeeds the worker
\* goes on to position to; when a fatal call fails the process exits with
\* status 1; a failure of a call that is not fatal is only logged.
SetupCall(at, to, fatal) ==
    /\ qpc = at
    /\ \E ok \in BOOLEAN :
          IF ok
          THEN /\ setup' = Append(setup, at)
               /\ qpc' = to
               /\ UNCHANGED exit_status
          ELSE IF fatal
          THEN /\ qpc' = "exited"
               /\ exit_status' = 1
               /\ UNCHANGED setup
          ELSE /\ qpc' = to
               /\ UNCHANGED <<setup, exit_status>>
    /\ UNCHANGED <<kqueue, next_id, enobufs, nfad, pkt_id, length, verdict,
                   received, handed, verdicts>>
    /\ UNCHANGED <<timeoutVars, periodVars, dnsVars, workerVars, parserVars>>

NfqOpen        == SetupCall("nfq_open", "nfq_unbind_pf", TRUE)
UnbindPf       == SetupCall("nfq_unbind_pf", "nfq_bind_pf", TRUE)
BindPf         == SetupCall("nfq_bind_pf", "nfq_create_queue", TRUE)
CreateQueue    == SetupCall("nfq_create_queue", "nfq_set_mode", TRUE)
SetMode        == SetupCall("nfq_set_mode", "flags_uid_gid", TRUE)
SetFlagsUidGid == SetupCall("flags_uid_gid", "flags_secctx", FALSE)
SetFlagsSecctx == SetupCall("flags_secctx", "recv", FALSE)

\* recv returns a packet (rv >= 0); nfq_handle_packet calls nfqueue_callback.
RecvPacket ==
    /\ qpc = "recv"
    /\ kqueue # <<>>
    /\ nfad' = Head(kqueue)
    /\ kqueue' = Tail(kqueue)
    /\ received' = Append(received, Head(kqueue))
    /\ qpc' = "callback"
    /\ UNCHANGED <<next_id, setup, exit_status, enobufs, pkt_id, length,
                   verdict, handed, verdicts>>
    /\ UNCHANGED <<timeoutVars, periodVars, dnsVars, workerVars, parserVars>>

\* Mutant: a receive failure with ENOBUFS ends the loop as other errors do.
RecvEnobufsBreaks ==
    /\ qpc = "recv"
    /\ enobufs < MaxEnobufs
    /\ enobufs' = enobufs + 1
    /\ qpc' = "nfq_destroy_queue"
    /\ UNCHANGED <<kqueue, next_id, setup, exit_status, nfad, pkt_id,
                   length, verdict, received, handed, verdicts>>
    /\ UNCHANGED <<timeoutVars, periodVars, dnsVars, workerVars, parserVars>>

\* recv fails with ENOBUFS: "losing packets!", and the loop continues.
RecvEnobufs ==
    /\ qpc = "recv"
    /\ enobufs < MaxEnobufs
    /\ enobufs' = enobufs + 1
    /\ UNCHANGED <<kqueue, next_id, qpc, setup, exit_status, nfad, pkt_id,
                   length, verdict, received, handed, verdicts>>
    /\ UNCHANGED <<timeoutVars, periodVars, dnsVars, workerVars, parserVars>>

\* recv fails with another error: the loop ends.
RecvError ==
    /\ qpc = "recv"
    /\ qpc' = "nfq_destroy_queue"
    /\ UNCHANGED <<kqueue, next_id, setup, exit_status, enobufs, nfad, pkt_id,
                   length, verdict, received, handed, verdicts>>
    /\ UNCHANGED <<timeoutVars, periodVars, dnsVars, workerVars, parserVars>>

\* nfqueue_callback up to the return of the policy callback
\* (nfqueue.c:38-70): the id and the payload are read, a failure of either
\* is only logged, and the policy callback returns some verdict.
CallbackPolicy ==
    /\ qpc = "callback"
    /\ pkt_id' = get_pkt_id(nfad)
    /\ length' = nfq_get_payload(nfad)
    /\ \E ret \in Verdicts :
          /\ verdict' = SentVerdict(ret)
          /\ handed' = Append(handed, [pkt |-> nfad, ret |-> ret])
    /\ qpc' = AfterPolicy
    /\ UNCHANGED <<kqueue, next_id, setup, exit_status, enobufs, nfad,
                   received, verdicts>>
    /\ UNCHANGED <<timeoutVars, periodVars, dnsVars, workerVars, parserVars>>

\* return nfq_set_verdict(qh, pkt_id, verdict, length, payload)
\* (nfqueue.c:73); pkt_id and length are converted to uint32_t by the call.
CallbackSetVerdict ==
    /\ qpc = "set_verdict"
    /\ verdicts' = Append(verdicts, [pkt |-> nfad, id |-> pkt_id,
                                     verdict |-> verdict, data_len |-> length])
    /\ nfad' = NoPacket
    /\ qpc' = "recv"
    /\ UNCHANGED <<kqueue, next_id, setup, exit_status, enobufs, pkt_id,
                   length, verdict, received, handed>>
    /\ UNCHANGED <<timeoutVars, periodVars, dnsVars, workerVars, parserVars>>

\* nfq_destroy_queue(qh) after the loop
DestroyQueue ==
    /\ qpc = "nfq_destroy_queue"
    /\ qpc' = "nfq_close"
    /\ UNCHANGED <<kqueue, next_id, setup, exit_status, enobufs, nfad, pkt_id,
                   length, verdict, received, handed, verdicts>>
    /\ UNCHANGED <<timeoutVars, periodVars, dnsVars, workerVars, parserVars>>

\* nfq_close(h); bind_queue returns
NfqClose ==
    /\ qpc = "nfq_close"
    /\ qpc' = "returned"
    /\ UNCHANGED <<kqueue, next_id, setup, exit_status, enobufs, nfad, pkt_id,
                   length, verdict, received, handed, verdicts>>
    /\ UNCHANGED <<timeoutVars, periodVars, dnsVars, workerVars, parserVars>>

(***************************************************************************)
(* DNS cache: a hashmap of dns_entry_t keyed by the domain name string     *)
(***************************************************************************)
\* Number of dns_map_add calls.
MaxAdds == 3

\* Length of the long address list that is tried.
LongLen == 200

\* uint8_t ip_count: the number of values of the field
IpCountModulus == 256

NULL == 0

Names == {"a.example", "b.example"}

IPs == {"192.168.1.1", "192.168.1.2"}

\* The name strings of the callers: two of them hold the same name.
StrPtrs == 1 .. 3

InitStrs == <<"a.example", "b.example", "a.example">>

\* The address lists that are passed to dns_map_add.
ShortLists == {<<"192.168.1.1">>, <<"192.168.1.2", "192.168.1.1">>}

LongList == [i \in 1 .. LongLen |-> "192.168.1.2"]

Lists == ShortLists \cup {LongList}

\* The arrays malloc can return; an array is not handed out twice.
Blocks == 1 .. (2 * MaxAdds)

\* malloc: a block not used so far
Malloc(hp) == CHOOSE b \in Blocks : hp[b].st = "unused" /\
                  \A c \in Blocks : hp[c].st = "unused" => b <= c

\* free
Free(hp, b) == [hp EXCEPT ![b] = [st |-> "freed", data |-> <<>>]]

\* The first n addresses of the array at b.
ReadArray(hp, b, n) ==
    IF b \in Blocks /\ hp[b].st = "live"
    THEN SubSeq(hp[b].data, 1, IF n <= Len(hp[b].data) THEN n ELSE Len(hp[b].data))
    ELSE <<>>

\* dns_hash, dns_compare: an item is found under the key it was hashed
\* with at insertion (hashmap_sip of its name then; no two names collide)
\* when strcmp of its name, as it is now, with the key gives 0.
hashmap_get(tbl, sb, key) ==
    {e \in tbl : e.hash = key /\ sb[e.domain_name] = key}

\* hashmap_set: the item replaces the item of the same key, or is added
hashmap_set(tbl, sb, item) ==
    (tbl \ hashmap_get(tbl, sb, sb[item.domain_name])) \cup {item}

\* hashmap_delete: the table without the item of that key
hashmap_delete(tbl, sb, key) ==
    IF hashmap_get(tbl, sb, key) = {} THEN tbl
    ELSE tbl \ {CHOOSE e \in hashmap_get(tbl, sb, key) : TRUE}

hashmap_count(tbl) == Cardinality(tbl)

\* dns_entry_t* dns_map_get(table, domain_name): the set holding the entry,
\* empty for NULL
dns_map_get(tbl, sb, domain_name) == hashmap_get(tbl, sb, sb[domain_name])

\* void dns_map_add(table, domain_name, ip_list): the table, the heap and
\* the memory fault (if any) after the call.
dns_map_add(tbl, sb, hp, domain_name, ip_list) ==
    LET found == dns_map_get(tbl, sb, domain_name)
    IN  IF found # {}
        THEN LET dns_entry == CHOOSE e \in found : TRUE
                 old_ip_list == [ip_count |-> dns_entry.ip_count,
                                 ip_addresses |-> dns_entry.ip_addresses]
                 total     == old_ip_list.ip_count + ip_list.ip_count
                 new_count == total % IpCountModulus
                 new_addrs == Malloc(hp)
                 copied    ==
                     ReadArray(hp, old_ip_list.ip_addresses,
                               old_ip_list.ip_count)
                       \o ReadArray(hp, ip_list.ip_addresses,
                                    ip_list.ip_count)
                 hp1 == [hp EXCEPT ![new_addrs] =
                            [st |-> "live",
                             data |-> SubSeq(copied, 1,
                                        IF new_count <= Len(copied)
                                        THEN new_count ELSE Len(copied))]]
                 hp2 == Free(Free(hp1, old_ip_list.ip_addresses),
                             ip_list.ip_addresses)
             IN  [table |-> (tbl \ {dns_entry}) \cup
                              {[dns_entry EXCEPT !.ip_count = new_count,
                                                 !.ip_addresses = new_addrs]},
                  heap  |-> hp2,
                  fault |->
                      IF hp[old_ip_list.ip_addresses].st # "live"
                      THEN "use_after_free"
                      ELSE IF total > new_count
                      THEN "heap_overflow"
                      ELSE "none"]
        ELSE [table |-> hashmap_set(tbl, sb,
                          [hash |-> sb[domain_name],
                           domain_name |-> domain_name,
                           ip_count |-> ip_list.ip_count,
                           ip_addresses |-> ip_list.ip_addresses]),
              heap  |-> hp,
              fault |-> "none"]

\* void dns_map_remove(table, domain_name)
dns_map_remove(tbl, sb, hp, domain_name) ==
    LET found == hashmap_get(tbl, sb, sb[domain_name])
    IN  IF found = {}
        THEN [table |-> tbl, heap |-> hp, fault |-> "none"]
        ELSE LET entry == CHOOSE e \in found : TRUE
             IN  [table |-> hashmap_delete(tbl, sb, sb[domain_name]),
                  heap  |-> Free(hp, entry.ip_addresses),
                  fault |-> IF hp[entry.ip_addresses].st # "live"
                            THEN "double_free" ELSE "none"]

\* Mutant: pop looks the entry up and leaves it in the table.
dns_map_pop_keeps(tbl, sb, domain_name) ==
    [table |-> tbl, ret |-> hashmap_get(tbl, sb, sb[domain_name])]

\* dns_entry_t* dns_map_pop(table, domain_name): the table after the call
\* and the returned entry (the empty set for NULL).
dns_map_pop(tbl, sb, domain_name) ==
    [table |-> hashmap_delete(tbl, sb, sb[domain_name]),
     ret   |-> hashmap_get(tbl, sb, sb[domain_name])]

\* The worker threads (nfqueue_thread), one for each queue, and the
\* interactions their policies belong to.
NumWorkers == 2

Workers == 1 .. NumWorkers

Interactions == 1 .. NumWorkers

NoLocals == [domain_name |-> NULL, ip_count |-> 0, ip_addresses |-> NULL,
             old_count |-> 0, old_addresses |-> NULL,
             new_count |-> 0, new_addresses |-> NULL]

NoExpect == [present |-> FALSE, ips |-> <<>>]

NoCall == [op |-> "none", key |-> "", present_before |-> FALSE,
           ret_null |-> TRUE, table_before |-> {}]

InitDns ==
    /\ strs = InitStrs
    /\ heap = [b \in Blocks |-> [st |-> "unused", data |-> <<>>]]
    /\ table = {}
    /\ fault = "none"
    /\ adds = 0
    /\ passed = {}
    /\ touched = 0
    /\ expect = [n \in Names |-> NoExpect]
    /\ last_call = NoCall
    /\ interaction = [w \in Workers |-> w]
    /\ mutex = [i \in Interactions |-> 0]
    /\ wpc = [w \in Workers |-> "idle"]
    /\ wloc = [w \in Workers |-> NoLocals]

\* A caller fills a fresh array with the list L and calls
\* dns_map_add(table, name, (ip_list_t){Len(L), array}).
DnsAddOf(ListSet) ==
    /\ fault = "none"
    /\ adds < MaxAdds
    /\ \E name \in StrPtrs, L \in ListSet :
          LET array == Malloc(heap)
              hp    == [heap EXCEPT ![array] = [st |-> "live", data |-> L]]
              r     == dns_map_add(table, strs, hp, name,
                                   [ip_count |-> Len(L),
                                    ip_addresses |-> array])
              key   == strs[name]
          IN  /\ table' = r.table
              /\ heap' = r.heap
              /\ fault' = r.fault
              /\ expect' = [expect EXCEPT ![key] =
                              [present |-> TRUE,
                               ips |-> IF @.present THEN @.ips \o L ELSE L]]
              /\ last_call' = [op |-> "add", key |-> key,
                               present_before |-> expect[key].present,
                               ret_null |-> TRUE, table_before |-> table]
              /\ passed' = passed \cup {array}
    /\ adds' = adds + 1
    /\ UNCHANGED <<strs, touched>>
    /\ UNCHANGED <<timeoutVars, periodVars, queueVars, workerVars, parserVars>>

DnsAdd == DnsAddOf(Lists)

\* dns_map_remove(table, name)
DnsRemove ==
    /\ fault = "none"
    /\ \E name \in StrPtrs :
          LET r   == dns_map_remove(table, strs, heap, name)
              key == strs[name]
          IN  /\ table' = r.table
              /\ heap' = r.heap
              /\ fault' = r.fault
              /\ expect' = [expect EXCEPT ![key] = NoExpect]
              /\ last_call' = [op |-> "remove", key |-> key,
                               present_before |-> expect[key].present,
                               ret_null |-> TRUE, table_before |-> table]
    /\ UNCHANGED <<strs, adds, passed, touched>>
    /\ UNCHANGED <<timeoutVars, periodVars, queueVars, workerVars, parserVars>>

\* dns_map_get(table, name)
DnsGet ==
    /\ fault = "none"
    /\ \E name \in StrPtrs :
          LET key == strs[name]
          IN  last_call' = [op |-> "get", key |-> key,
                            present_before |-> expect[key].present,
                            ret_null |-> dns_map_get(table, strs, name) = {},
                            table_before |-> table]
    /\ UNCHANGED <<strs, heap, table, fault, adds, passed, touched, expect>>
    /\ UNCHANGED <<timeoutVars, periodVars, queueVars, workerVars, parserVars>>

\* dns_map_pop(table, name); the caller then frees the array of the
\* returned entry, which it owns.
DnsPop ==
    /\ fault = "none"
    /\ \E name \in StrPtrs :
          LET r   == dns_map_pop(table, strs, name)
              key == strs[name]
          IN  /\ table' = r.table
              /\ heap' = IF r.ret = {} THEN heap
                         ELSE Free(heap, (CHOOSE e \in r.ret : TRUE).ip_addresses)
              /\ expect' = [expect EXCEPT ![key] = NoExpect]
              /\ last_call' = [op |-> "pop", key |-> key,
                               present_before |-> expect[key].present,
                               ret_null |-> r.ret = {},
                               table_before |-> table]
    /\ UNCHANGED <<strs, fault, adds, passed, touched>>
    /\ UNCHANGED <<timeoutVars, periodVars, queueVars, workerVars, parserVars>>

\* Number of times a caller writes to or frees what it passed.
MaxTouches == 1

\* dns_map_add with the short lists only.
DnsAddShort == DnsAddOf(ShortLists)

\* A caller writes another name into a name string it passed to a call.
CallerOverwriteName ==
    /\ fault = "none"
    /\ touched < MaxTouches
    /\ touched' = touched + 1
    /\ \E name \in StrPtrs, n \in Names :
          /\ n # strs[name]
          /\ strs' = [strs EXCEPT ![name] = n]
    /\ last_call' = [last_call EXCEPT !.op = "caller"]
    /\ UNCHANGED <<heap, table, fault, adds, passed, expect>>
    /\ UNCHANGED <<timeoutVars, periodVars, queueVars, workerVars, parserVars>>

\* A caller writes another address into the first element of an array it
\* passed to dns_map_add; the array may have been freed by the cache.
CallerOverwriteArray ==
    /\ fault = "none"
    /\ touched < MaxTouches
    /\ touched' = touched + 1
    /\ \E b \in passed, ip \in IPs :
          IF heap[b].st = "live"
          THEN /\ Len(heap[b].data) <= 2
               /\ ip # heap[b].data[1]
               /\ heap' = [heap EXCEPT ![b].data[1] = ip]
               /\ fault' = fault
          ELSE /\ fault' = "use_after_free"
               /\ heap' = heap
    /\ last_call' = [last_call EXCEPT !.op = "caller"]
    /\ UNCHANGED <<strs, table, adds, passed, expect>>
    /\ UNCHANGED <<timeoutVars, periodVars, queueVars, workerVars, parserVars>>

\* A caller frees an array it passed to dns_map_add.
CallerFreeArray ==
    /\ fault = "none"
    /\ touched < MaxTouches
    /\ touched' = touched + 1
    /\ \E b \in passed :
          /\ heap' = Free(heap, b)
          /\ fault' = IF heap[b].st = "live" THEN "none" ELSE "double_free"
          /\ passed' = passed \ {b}
    /\ last_call' = [last_call EXCEPT !.op = "caller"]
    /\ UNCHANGED <<strs, table, adds, expect>>
    /\ UNCHANGED <<timeoutVars, periodVars, queueVars, workerVars, parserVars>>

(***************************************************************************)
(* Parsers: the payload is a sequence of bytes; data[k + 1] is the byte at *)
(* index k.  A read at an index that is not less than the length of the    *)
(* buffer is recorded in max_read and ends the run of the parser.          *)
(***************************************************************************)
nonParserVars ==
    <<timeoutVars, periodVars, queueVars, dnsVars, workerVars, lookupVars,
      restVars>>

\* Number of values of a uint16_t
Uint16 == 65536

\* *(data + k)
Byte(d, k) == d[k + 1]

\* ntohs(*((uint16_t *) (data + k)))
U16(d, k) == Byte(d, k) * 256 + Byte(d, k + 1)

\* The index hi is inside the buffer.
InData(hi) == hi < Len(data)

\* The step reads bytes up to index hi.
ReadsUpTo(hi) == max_read' = IF hi > max_read THEN hi ELSE max_read

(***************************************************************************)
(* DNS parser: dns_parse_message, then dns_free_message                    *)
(***************************************************************************)
DNS_HEADER_SIZE == 12

DNS_MAX_DOMAIN_NAME_LENGTH == 100

DNS_COMPRESSION_MASK == 16383

\* dns_rr_type_t
A == 1

NS == 2

CNAME == 5

PTR == 12

TXT == 16

AAAA == 28

\* The string literal "" that dns_parse_domain_name returns for the root.
EmptyString == -1

\* An rdata_t that holds an ip_addr_t, not a pointer.
IpValue == -2

\* turn is the parity of the turns of the while loop taken so far.
NoNameSt == [ret |-> "none", domain_name_offset |-> 0, compression |-> FALSE,
             current_length |-> 0, max_length |-> 0, domain_name |-> NULL,
             turn |-> 0]

NoCur == [name |-> NULL, rtype |-> 0, rdlength |-> 0, rdata |-> NULL]

NoMessage == [header |-> [qr |-> FALSE, qdcount |-> 0, ancount |-> 0],
              questions |-> NULL, answers |-> NULL,
              qnames |-> <<>>, rrs |-> <<>>]

\* The first 12 bytes of a message: id, flags, qdcount, ancount, nscount,
\* arcount.
Hdr(qr, qd, an) == <<0, 1, qr * 128, 0, 0, qd, 0, an, 0, 0, 0, 0>>

\* qtype A, qclass IN
QTail == <<0, 1, 0, 1>>

\* rtype, rclass IN, ttl 60, rdlength
RrTail(rtype, rdlength) == <<0, rtype, 0, 1, 0, 0, 0, 60, 0, rdlength>>

\* The question "a", at offset 12.
QuestionA == <<1, 97, 0>> \o QTail

\* Queries.
Queries ==
    { Hdr(0, 1, 0) \o QuestionA,
      Hdr(0, 1, 0) \o <<0>> \o QTail,                  \* the root name
      Hdr(0, 1, 0) \o <<192, 12>> \o QTail,            \* pointer to itself
      Hdr(0, 1, 0) \o <<192, 14, 192, 12>> \o QTail,   \* two pointers, a cycle
      Hdr(0, 1, 0) \o <<192, 14, 0>> \o QTail,         \* pointer to a root
      Hdr(0, 2, 0) \o QuestionA,                       \* one question of two
      Hdr(0, 0, 1) \o <<192, 12>> \o RrTail(A, 4) \o <<10, 0, 0, 1>>,
      <<>> }

\* A label followed by a pointer back to it.
LabelCycle == Hdr(0, 1, 0) \o <<1, 97, 192, 12>> \o QTail

\* Responses: the question "a", then records.
Responses ==
    { Hdr(1, 1, 1) \o QuestionA \o
          <<192, 12>> \o RrTail(A, 4) \o <<10, 0, 0, 1>>,
      Hdr(1, 1, 1) \o QuestionA \o
          <<192, 12>> \o RrTail(CNAME, 3) \o <<1, 98, 0>>,
      Hdr(1, 1, 2) \o QuestionA \o
          <<192, 12>> \o RrTail(CNAME, 3) \o <<1, 98, 0>> \o
          <<1, 98, 0>> \o RrTail(A, 4) \o <<10, 0, 0, 2>>,
      Hdr(1, 1, 1) \o QuestionA \o
          <<192, 12>> \o RrTail(A, 0),                 \* rdlength 0
      Hdr(1, 1, 1) \o QuestionA \o
          <<192, 12>> \o RrTail(TXT, 2) \o <<1, 120>>,
      Hdr(1, 1, 1) \o QuestionA \o
          <<0>> \o RrTail(A, 4) \o <<10, 0, 0, 1>>,    \* record of the root
      Hdr(1, 1, 1) \o QuestionA \o
          <<192, 12>> \o RrTail(CNAME, 1) \o <<0>>,    \* CNAME to the root
      Hdr(1, 1, 1) \o QuestionA \o
          <<192, 12>> \o RrTail(TXT, 200) \o <<1, 120>>,
      Hdr(1, 0, 1) \o <<1, 97, 0>> \o RrTail(AAAA, 16) \o
          [k \in 1 .. 16 |-> 32],
      Hdr(1, 0, 1) \o <<1, 97, 0>> \o RrTail(AAAA, 20) \o
          [k \in 1 .. 20 |-> 32] }

\* Number of bytes that may be missing at the end of a buffer.
MaxCut == 2

\* The buffers handed to dns_parse_message.
DnsBuffers ==
    {LabelCycle} \cup
    { SubSeq(m, 1, Len(m) - cut) :
        m \in {b \in Queries \cup Responses : Len(b) >= MaxCut},
        cut \in 0 .. MaxCut } \cup {<<>>}

InitDnsParseIdle ==
    /\ dpc = "idle"
    /\ offset = 0
    /\ message = NoMessage
    /\ idx = 0
    /\ name_st = NoNameSt
    /\ cur = NoCur
    /\ blocks = 0
    /\ free_calls = <<>>
    /\ dfault = "none"

\* ip_list_t of dns_get_ip_from_name: ip_addresses is NULL until the first
\* address is stored.
EmptyIpList == [ip_count |-> 0, allocated |-> FALSE, ip_addresses |-> <<>>]

InitLookupIdle ==
    /\ lk_answers = <<>>
    /\ lk_name = ""
    /\ lk_result = EmptyIpList
    /\ lpc = "idle"

\* The value of an http_message_t, or of the uri buffer, not yet written.
NoHttpMessage == [is_request |-> FALSE, method |-> "unset",
                  uri_set |-> FALSE, uri |-> <<>>]

NoUri == [length |-> 0, max_length |-> 0, chars |-> <<>>]

InitHttpIdle ==
    /\ dst_port = 0
    /\ hpc = "idle"
    /\ http_offset = 0
    /\ http_uri = NoUri
    /\ http_message = NoHttpMessage

\* The value of a coap_message_t not yet written.
NoCoapMessage == [type |-> -1, method |-> "unset", uri_set |-> FALSE,
                  uri |-> <<>>, uri_len |-> 0]

InitCoapIdle ==
    /\ coap_options = [encoded |-> FALSE, options |-> <<>>]
    /\ cpc = "idle"
    /\ coap_pos = 0
    /\ option_num = 0
    /\ bytes_read = 0
    /\ msg_length = 0
    /\ coap_turn = 0
    /\ coap_message = NoCoapMessage

\* dhcp_options_t options, declared and not yet written: message_type holds
\* whatever the stack held (garbage), options points nowhere known.
UnwrittenOptions(garbage) ==
    [count |-> 0, message_type |-> garbage, type_written |-> FALSE,
     allocated |-> FALSE, block |-> NULL, options |-> <<>>]

InitDhcpIdle ==
    /\ dhpc = "idle"
    /\ dhcp_offset = 0
    /\ max_option_count = 0
    /\ dhcp_options = UnwrittenOptions(0)
    /\ dhcp_allocs = 0
    /\ dhcp_frees = <<>>

InitNftIdle ==
    /\ nft_rules = <<>>
    /\ nft_rule = <<>>
    /\ rpc = "idle"
    /\ nft_buf = <<>>
    /\ nft_handle = 0
    /\ nft_cmds = <<>>
    /\ nft_result = FALSE

InitRestIdle == InitHttpIdle /\ InitCoapIdle /\ InitDhcpIdle /\ InitNftIdle

InitParsersIdle ==
    /\ data = <<>>
    /\ max_read = -1
    /\ InitDnsParseIdle
    /\ InitLookupIdle
    /\ InitRestIdle

InitDnsParse ==
    /\ data \in DnsBuffers
    /\ max_read = -1
    /\ dpc = "header"
    /\ offset = 0
    /\ message = NoMessage
    /\ idx = 0
    /\ name_st = NoNameSt
    /\ cur = NoCur
    /\ blocks = 0
    /\ free_calls = <<>>
    /\ dfault = "none"

\* The parse ends on a memory fault.
DnsFault(kind) ==
    /\ dpc' = "fault"
    /\ dfault' = kind
    /\ UNCHANGED <<offset, message, idx, name_st, cur, blocks, free_calls>>

\* dns_parse_header
DnsParseHeader ==
    /\ dpc = "header"
    /\ ReadsUpTo(offset + DNS_HEADER_SIZE - 1)
    /\ IF InData(offset + DNS_HEADER_SIZE - 1)
       THEN /\ message' = [message EXCEPT !.header =
                            [qr |-> U16(data, offset + 2) >= 32768,
                             qdcount |-> U16(data, offset + 4),
                             ancount |-> U16(data, offset + 6)]]
            /\ offset' = (offset + DNS_HEADER_SIZE) % Uint16
            /\ dpc' = "questions"
            /\ UNCHANGED <<idx, name_st, cur, blocks, free_calls, dfault>>
       ELSE DnsFault("read_out_of_bounds")
    /\ UNCHANGED <<data, nonParserVars>>

\* dns_parse_message: if (qdcount > 0), and the malloc of
\* dns_parse_questions
DnsQuestionsBegin ==
    /\ dpc = "questions"
    /\ IF message.header.qdcount > 0
       THEN /\ blocks' = blocks + 1
            /\ message' = [message EXCEPT !.questions = blocks + 1]
            /\ idx' = 0
            /\ dpc' = "q_name"
       ELSE /\ dpc' = "answers"
            /\ UNCHANGED <<blocks, message, idx>>
    /\ UNCHANGED <<offset, name_st, cur, free_calls, dfault>>
    /\ UNCHANGED <<data, max_read, nonParserVars>>

\* dns_parse_message: if (qr == 1 && ancount > 0), and the malloc of
\* dns_parse_rrs
DnsAnswersBegin ==
    /\ dpc = "answers"
    /\ IF message.header.qr /\ message.header.ancount > 0
       THEN /\ blocks' = blocks + 1
            /\ message' = [message EXCEPT !.answers = blocks + 1]
            /\ idx' = 0
            /\ dpc' = "rr_name"
       ELSE /\ dpc' = "parsed"
            /\ UNCHANGED <<blocks, message, idx>>
    /\ UNCHANGED <<offset, name_st, cur, free_calls, dfault>>
    /\ UNCHANGED <<data, max_read, nonParserVars>>

\* The caller's slot for the name being parsed: the rdata of the record, or
\* the name of the question or record.
StoreName(ret, ptr) ==
    IF ret = "rr_done" THEN [cur EXCEPT !.rdata = ptr]
    ELSE [cur EXCEPT !.name = ptr]

\* Where dns_parse_domain_name returns to.
NameReturn ==
    CASE dpc = "q_name" -> "q_fields"
      [] dpc = "rr_name" -> "rr_fields"
      [] OTHER -> "rr_done"

\* dns_parse_domain_name, up to the while loop: the root name is the
\* literal "", any other name gets a buffer of max_length characters.
DnsNameBegin ==
    /\ dpc \in {"q_name", "rr_name", "rdata_name"}
    /\ ReadsUpTo(offset)
    /\ IF ~InData(offset)
       THEN DnsFault("read_out_of_bounds")
       ELSE IF Byte(data, offset) = 0
       THEN /\ offset' = (offset + 1) % Uint16
            /\ cur' = StoreName(NameReturn, EmptyString)
            /\ dpc' = NameReturn
            /\ UNCHANGED <<message, idx, name_st, blocks, free_calls, dfault>>
       ELSE /\ blocks' = blocks + 1
            /\ name_st' = [ret |-> NameReturn,
                           domain_name_offset |-> offset,
                           compression |-> FALSE,
                           current_length |-> 0,
                           max_length |-> DNS_MAX_DOMAIN_NAME_LENGTH,
                           domain_name |-> blocks + 1,
                           turn |-> 0]
            /\ dpc' = "name_loop"
            /\ UNCHANGED <<offset, message, idx, cur, free_calls, dfault>>
    /\ UNCHANGED <<data, nonParserVars>>

\* The for loop that copies the n characters of a label: the buffer is
\* doubled (in a uint16_t) when current_length == max_length; a character
\* written at an index that is not below the size of the buffer overflows.
RECURSIVE CopyLabel(_, _, _)
CopyLabel(cl, ml, n) ==
    IF n = 0
    THEN [current_length |-> cl, max_length |-> ml, overflow |-> FALSE]
    ELSE LET ml1 == IF cl = ml THEN (ml * 2) % Uint16 ELSE ml
         IN  IF cl >= ml1
             THEN [current_length |-> cl, max_length |-> ml1,
                   overflow |-> TRUE]
             ELSE CopyLabel(cl + 1, ml1, n - 1)

\* One pass of the while loop of dns_parse_domain_name, or its exit.
DnsNameStep ==
    /\ dpc = "name_loop"
    /\ LET dno == name_st.domain_name_offset
           length_byte == Byte(data, dno)
       IN  IF ~InData(dno)
           THEN ReadsUpTo(dno) /\ DnsFault("read_out_of_bounds")
           ELSE IF length_byte = 0
           THEN \* the name is complete: the last '.' becomes '\0'
                LET last == (name_st.current_length - 1) % Uint16
                IN  /\ ReadsUpTo(dno)
                    /\ IF last >= name_st.max_length
                       THEN DnsFault("heap_overflow")
                       ELSE /\ cur' = StoreName(name_st.ret,
                                                name_st.domain_name)
                            /\ offset' = IF name_st.compression THEN offset
                                         ELSE (offset + 1) % Uint16
                            /\ dpc' = name_st.ret
                            /\ name_st' = NoNameSt
                            /\ UNCHANGED <<message, idx, blocks, free_calls,
                                           dfault>>
           ELSE IF length_byte \div 64 = 3
           THEN \* compression pointer
                /\ ReadsUpTo(dno + 1)
                /\ IF ~InData(dno + 1)
                   THEN DnsFault("read_out_of_bounds")
                   ELSE /\ offset' = IF name_st.compression THEN offset
                                     ELSE (offset + 2) % Uint16
                        /\ name_st' =
                             [name_st EXCEPT
                                !.compression = TRUE,
                                !.domain_name_offset =
                                    U16(data, dno) % (DNS_COMPRESSION_MASK + 1),
                                !.turn = 1 - @]
                        /\ UNCHANGED <<dpc, message, idx, cur, blocks,
                                       free_calls, dfault>>
           ELSE \* a label of length_byte characters, then '.'
                LET c == CopyLabel(name_st.current_length,
                                   name_st.max_length, length_byte)
                    next == (dno + length_byte + 1) % Uint16
                IN  /\ ReadsUpTo(dno + length_byte)
                    /\ IF ~InData(dno + length_byte)
                       THEN DnsFault("read_out_of_bounds")
                       ELSE IF c.overflow
                                 \/ c.current_length >= c.max_length
                       THEN DnsFault("heap_overflow")
                       ELSE /\ name_st' =
                                 [name_st EXCEPT
                                    !.current_length =
                                        (c.current_length + 1) % Uint16,
                                    !.max_length = c.max_length,
                                    !.domain_name_offset = next,
                                    !.turn = 1 - @]
                            /\ offset' = IF name_st.compression THEN offset
                                         ELSE next
                            /\ UNCHANGED <<dpc, message, idx, cur, blocks,
                                           free_calls, dfault>>
    /\ UNCHANGED <<data, nonParserVars>>

\* dns_parse_questions: qtype, qclass, offset += 4, and the loop test
DnsQuestionFields ==
    /\ dpc = "q_fields"
    /\ ReadsUpTo(offset + 3)
    /\ IF ~InData(offset + 3)
       THEN DnsFault("read_out_of_bounds")
       ELSE /\ message' = [message EXCEPT
                              !.qnames = Append(@, cur.name)]
            /\ offset' = (offset + 4) % Uint16
            /\ idx' = idx + 1
            /\ cur' = NoCur
            /\ dpc' = IF idx + 1 < message.header.qdcount
                      THEN "q_name" ELSE "answers"
            /\ UNCHANGED <<name_st, blocks, free_calls, dfault>>
    /\ UNCHANGED <<data, nonParserVars>>

\* dns_parse_rrs: rtype, rclass, ttl, rdlength, offset += 10
DnsRrFields ==
    /\ dpc = "rr_fields"
    /\ ReadsUpTo(offset + 9)
    /\ IF ~InData(offset + 9)
       THEN DnsFault("read_out_of_bounds")
       ELSE /\ cur' = [cur EXCEPT !.rtype = U16(data, offset),
                                  !.rdlength = U16(data, offset + 8)]
            /\ offset' = (offset + 10) % Uint16
            /\ dpc' = "rdata"
            /\ UNCHANGED <<message, idx, name_st, blocks, free_calls, dfault>>
    /\ UNCHANGED <<data, nonParserVars>>

\* dns_parse_rdata
DnsRdata ==
    /\ dpc = "rdata"
    /\ IF cur.rdlength = 0
       THEN /\ cur' = [cur EXCEPT !.rdata = NULL]
            /\ dpc' = "rr_done"
            /\ UNCHANGED <<max_read, offset, message, idx, name_st, blocks,
                           free_calls, dfault>>
       ELSE IF cur.rtype \in {NS, CNAME, PTR}
       THEN /\ dpc' = "rdata_name"
            /\ UNCHANGED <<max_read, offset, message, idx, name_st, cur,
                           blocks, free_calls, dfault>>
       ELSE LET nread == IF cur.rtype = A THEN 4 ELSE cur.rdlength
            IN  /\ ReadsUpTo(offset + nread - 1)
                /\ IF ~InData(offset + nread - 1)
                   THEN DnsFault("read_out_of_bounds")
                   ELSE IF cur.rtype = AAAA /\ cur.rdlength > 16
                   THEN DnsFault("buffer_overflow")
                   ELSE /\ cur' = [cur EXCEPT !.rdata =
                                     IF cur.rtype \in {A, AAAA}
                                     THEN IpValue ELSE blocks + 1]
                        /\ blocks' = IF cur.rtype \in {A, AAAA}
                                     THEN blocks ELSE blocks + 1
                        /\ offset' = (offset + cur.rdlength) % Uint16
                        /\ dpc' = "rr_done"
                        /\ UNCHANGED <<message, idx, name_st, free_calls,
                                       dfault>>
    /\ UNCHANGED <<data, nonParserVars>>

\* dns_parse_rrs: the record is complete; the loop test
DnsRrDone ==
    /\ dpc = "rr_done"
    /\ message' = [message EXCEPT !.rrs = Append(@, cur)]
    /\ idx' = idx + 1
    /\ cur' = NoCur
    /\ dpc' = IF idx + 1 < message.header.ancount THEN "rr_name" ELSE "parsed"
    /\ UNCHANGED <<offset, name_st, blocks, free_calls, dfault>>
    /\ UNCHANGED <<data, max_read, nonParserVars>>

\* dns_free_rdata: the pointer it frees, if any
FreedByRdata(rr) ==
    IF rr.rtype \in {A, AAAA} THEN <<>> ELSE <<rr.rdata>>

\* dns_free_rrs: the pointers passed to free for the records rrs
RECURSIVE FreedByRrs(_)
FreedByRrs(rrs) ==
    IF rrs = <<>> THEN <<>>
    ELSE (IF Head(rrs).rdlength > 0
          THEN <<Head(rrs).name>> \o FreedByRdata(Head(rrs))
          ELSE <<>>) \o FreedByRrs(Tail(rrs))

\* dns_free_message: the pointers passed to free, in order
FreedByMessage(msg) ==
    (IF msg.header.qdcount > 0
     THEN msg.qnames \o <<msg.questions>> ELSE <<>>)
    \o (IF msg.answers # NULL /\ msg.header.ancount > 0
        THEN FreedByRrs(msg.rrs) \o <<msg.answers>> ELSE <<>>)

\* free(p) is valid for NULL and for a block that is allocated and has not
\* been freed.
ValidFrees(calls, nblocks) ==
    \A k \in DOMAIN calls :
        \/ calls[k] = NULL
        \/ /\ calls[k] \in 1 .. nblocks
           /\ \A j \in 1 .. (k - 1) : calls[j] # calls[k]

\* dns_free_message(message)
DnsFreeMessage ==
    /\ dpc = "parsed"
    /\ free_calls' = FreedByMessage(message)
    /\ dfault' = IF ValidFrees(FreedByMessage(message), blocks)
                 THEN "none" ELSE "invalid_free"
    /\ dpc' = "freed"
    /\ UNCHANGED <<offset, message, idx, name_st, cur, blocks>>
    /\ UNCHANGED <<data, max_read, nonParserVars>>

(***************************************************************************)
(* dns_get_ip_from_name: the addresses of a name in a list of answers      *)
(***************************************************************************)
\* Number of records in the list of answers.
MaxAnswers == 3

LookupNames == {"n.example", "m.example", "x.example"}

\* The records tried: for each name an A record and a CNAME to each other
\* name; an AAAA record and a TXT record besides.
LookupRecords ==
    { [name |-> o, rtype |-> A, rdata |-> <<"ipv4 of", o>>] :
        o \in LookupNames } \cup
    { [name |-> r[1], rtype |-> CNAME, rdata |-> r[2]] :
        r \in {q \in LookupNames \X LookupNames : q[1] # q[2]} } \cup
    { [name |-> "m.example", rtype |-> AAAA, rdata |-> <<"ipv6 of", "m.example">>],
      [name |-> "n.example", rtype |-> TXT, rdata |-> <<"text of", "n.example">>] }

RECURSIVE SeqsUpTo(_, _)
SeqsUpTo(S, n) ==
    IF n = 0 THEN {<<>>}
    ELSE LET shorter == SeqsUpTo(S, n - 1)
         IN  shorter \cup {Append(q, x) : q \in shorter, x \in S}

\* Mutant: the owner name of a record is not compared with the name sought.
RECURSIVE GetIpAnyName(_, _, _, _)
GetIpAnyName(answers, k, cname, ip_list) ==
    IF k > Len(answers) THEN ip_list
    ELSE IF answers[k].rtype \in {A, AAAA}
    THEN GetIpAnyName(answers, k + 1, cname,
            [ip_count |-> (ip_list.ip_count + 1) % IpCountModulus,
             allocated |-> TRUE,
             ip_addresses |->
                 SubSeq(ip_list.ip_addresses, 1, ip_list.ip_count)
                   \o <<answers[k].rdata>>])
    ELSE GetIpAnyName(answers, k + 1, cname, ip_list)

dns_get_ip_from_name_any(answers, ancount, name) ==
    GetIpAnyName(SubSeq(answers, 1, ancount), 1, name, EmptyIpList)

\* The for loop of dns_get_ip_from_name from record k on: an A or AAAA
\* record of the name cname adds its address (the array is resized to
\* ip_count + 1 elements, ip_count is a uint8_t), a CNAME record of cname
\* makes its target the name sought from then on.
RECURSIVE GetIpLoop(_, _, _, _)
GetIpLoop(answers, k, cname, ip_list) ==
    IF k > Len(answers) THEN ip_list
    ELSE IF answers[k].name = cname
    THEN IF answers[k].rtype \in {A, AAAA}
         THEN GetIpLoop(answers, k + 1, cname,
                 [ip_count |-> (ip_list.ip_count + 1) % IpCountModulus,
                  allocated |-> TRUE,
                  ip_addresses |->
                      SubSeq(ip_list.ip_addresses, 1, ip_list.ip_count)
                        \o <<answers[k].rdata>>])
         ELSE IF answers[k].rtype = CNAME
         THEN GetIpLoop(answers, k + 1, answers[k].rdata, ip_list)
         ELSE GetIpLoop(answers, k + 1, cname, ip_list)
    ELSE GetIpLoop(answers, k + 1, cname, ip_list)

\* ip_list_t dns_get_ip_from_name(answers, ancount, domain_name)
dns_get_ip_from_name(answers, ancount, name) ==
    GetIpLoop(SubSeq(answers, 1, ancount), 1, name, EmptyIpList)

InitLookup ==
    /\ lk_answers \in SeqsUpTo(LookupRecords, MaxAnswers)
    /\ lk_name = "n.example"
    /\ lk_result = EmptyIpList
    /\ lpc = "call"

\* lk_result = dns_get_ip_from_name(answers, ancount, domain_name)
DnsGetIpFromName ==
    /\ lpc = "call"
    /\ lk_result' = dns_get_ip_from_name(lk_answers, Len(lk_answers), lk_name)
    /\ lpc' = "done"
    /\ UNCHANGED <<lk_answers, lk_name>>
    /\ UNCHANGED <<data, max_read, dnsParseVars, restVars>>
    /\ UNCHANGED <<timeoutVars, periodVars, queueVars, dnsVars, workerVars>>

(***************************************************************************)
(* HTTP parser (parsers/http.c)                                            *)
(***************************************************************************)
HTTP_METHOD_MAX_LEN == 7

\* The names of the methods of http_method_t, HTTP_UNKNOWN excepted, as they
\* stand in a request line.
MethodTokens ==
    { <<"G", "E", "T">>,
      <<"H", "E", "A", "D">>,
      <<"P", "O", "S", "T">>,
      <<"P", "U", "T">>,
      <<"D", "E", "L", "E", "T", "E">>,
      <<"C", "O", "N", "N", "E", "C", "T">>,
      <<"O", "P", "T", "I", "O", "N", "S">>,
      <<"T", "R", "A", "C", "E">> }

\* The first words of the payloads tried: the methods, and words that are
\* not methods.
FirstWords ==
    { <<"G", "E", "T">>,
      <<"H", "E", "A", "D">>,
      <<"P", "O", "S", "T">>,
      <<"P", "U", "T">>,
      <<"D", "E", "L", "E", "T", "E">>,
      <<"C", "O", "N", "N", "E", "C", "T">>,
      <<"O", "P", "T", "I", "O", "N", "S">>,
      <<"T", "R", "A", "C", "E">>,
      <<"G", "X", "Y", "Z">>,
      <<"H", "T", "T", "P", "/", "1", ".", "1">>,
      <<"P", "A", "T", "C", "H">>,
      <<"g", "e", "t">>,
      <<"G", "E", "T", "X">>,
      <<"P", "U", "S", "H">>,
      <<"T", "R", "A", "C", "K">>,
      <<"M", "-", "S", "E", "A", "R", "C", "H">> }

\* The payloads: a first word, a space, a URI and a space; the status line
\* of a response; a payload cut after its first character; and the empty one.
HttpPayloads ==
    { w \o <<" ", "/", "a", " ">> : w \in FirstWords } \cup
    { <<"H", "T", "T", "P", "/", "1", ".", "1", " ", "2", "0", "0", " ", "O", "K">>,
      <<"G", "E", "T", " ", "/", "a", "b", "c", "d", "e", "f", "g", "h", " ", "H">>,
      <<"P", "O", "S", "T", " ", " ">>,
      <<"G", "E", "T", " ", "/", "i", "n", "d", "e", "x", ".", "h", "t", "m", "l", " ", "H">>,
      <<"O", "P", "T", "I", "O", "N", "S", " ", "*", " ", "H", "T", "T", "P">>,
      <<"G">>, <<"P">>, <<>> }

HttpPorts == {80, 8080}

InitHttp ==
    /\ data \in HttpPayloads
    /\ max_read = -1
    /\ dst_port \in HttpPorts
    /\ hpc = "method"
    /\ http_offset = 0
    /\ http_uri = NoUri
    /\ http_message = NoHttpMessage

\* The character at offset k of the payload; past its end the read is
\* outside the buffer and yields nothing the parser could rely on.
CharAt(k) == IF k < Len(data) THEN data[k + 1] ELSE "outside"

\* http_parse_method: the method is chosen by the first character, and by
\* the second after a 'P'; the offset advances by the length of the method
\* name and one more.  <<method, offset, index of the last character read>>
http_parse_method(off) ==
    LET c  == CharAt(off)
        c2 == CharAt(off + 1)
    IN  CASE c = "G" -> <<"HTTP_GET", off + 4, off>>
          [] c = "H" -> <<"HTTP_HEAD", off + 5, off>>
          [] c = "P" /\ c2 = "O" -> <<"HTTP_POST", off + 5, off + 1>>
          [] c = "P" /\ c2 = "U" -> <<"HTTP_PUT", off + 4, off + 1>>
          [] c = "P" /\ c2 \notin {"O", "U"} -> <<"HTTP_UNKNOWN", off, off + 1>>
          [] c = "D" -> <<"HTTP_DELETE", off + 7, off>>
          [] c = "C" -> <<"HTTP_CONNECT", off + 8, off>>
          [] c = "O" -> <<"HTTP_OPTIONS", off + 8, off>>
          [] c = "T" -> <<"HTTP_TRACE", off + 6, off>>
          [] OTHER -> <<"HTTP_UNKNOWN", off, off>>

\* http_parse_message up to the call of http_parse_uri: the method is
\* parsed, is_request is set, and without a request the message is complete.
HttpParseMethod ==
    /\ hpc = "method"
    /\ LET r == http_parse_method(0)
           is_request == dst_port = 80 /\ r[1] # "HTTP_UNKNOWN"
       IN  /\ ReadsUpTo(r[3])
           /\ IF r[3] >= Len(data)
              THEN /\ hpc' = "fault"
                   /\ UNCHANGED <<http_offset, http_uri, http_message>>
              ELSE IF is_request
              THEN /\ hpc' = "uri"
                   /\ http_offset' = r[2] % Uint16
                   /\ http_uri' = [length |-> 1,
                                   max_length |-> HTTP_METHOD_MAX_LEN,
                                   chars |-> <<>>]
                   /\ http_message' = [is_request |-> TRUE, method |-> r[1],
                                       uri_set |-> FALSE, uri |-> <<>>]
              ELSE /\ hpc' = "done"
                   /\ http_message' = [is_request |-> FALSE,
                                       method |-> "HTTP_UNKNOWN",
                                       uri_set |-> FALSE, uri |-> <<>>]
                   /\ UNCHANGED <<http_offset, http_uri>>
    /\ UNCHANGED <<data, dst_port>>
    /\ UNCHANGED <<dnsParseVars, lookupVars, coapVars, dhcpVars, nftVars>>
    /\ UNCHANGED <<timeoutVars, periodVars, queueVars, dnsVars, workerVars>>

\* One turn of the while loop of http_parse_uri, or its exit: characters are
\* copied until a space is read, the buffer doubling when it is full; then
\* the buffer is shrunk and the string ended.
HttpUriStep ==
    /\ hpc = "uri"
    /\ ReadsUpTo(http_offset)
    /\ IF http_offset >= Len(data)
       THEN /\ hpc' = "fault"
            /\ UNCHANGED <<http_offset, http_uri, http_message>>
       ELSE IF CharAt(http_offset) = " "
       THEN /\ hpc' = "done"
            /\ http_uri' =
                 [http_uri EXCEPT !.max_length =
                     IF http_uri.length < @ THEN http_uri.length ELSE @]
            /\ http_message' = [http_message EXCEPT !.uri_set = TRUE,
                                                    !.uri = http_uri.chars]
            /\ UNCHANGED http_offset
       ELSE /\ hpc' = "uri"
            /\ http_uri' =
                 [length |-> (http_uri.length + 1) % Uint16,
                  max_length |->
                     IF http_uri.length = http_uri.max_length
                     THEN (http_uri.max_length * 2) % Uint16
                     ELSE http_uri.max_length,
                  chars |-> Append(http_uri.chars, CharAt(http_offset))]
            /\ http_offset' = (http_offset + 1) % Uint16
            /\ UNCHANGED http_message
    /\ UNCHANGED <<data, dst_port>>
    /\ UNCHANGED <<dnsParseVars, lookupVars, coapVars, dhcpVars, nftVars>>
    /\ UNCHANGED <<timeoutVars, periodVars, queueVars, dnsVars, workerVars>>

(***************************************************************************)
(* CoAP parser (parsers/coap.c)                                            *)
(***************************************************************************)
COAP_URI_PATH == 11
COAP_URI_QUERY == 15

\* Number of values of a uint8_t
Uint8 == 256

\* Number of segments, Uri-Path and Uri-Query together, of a message.
MaxSegments == 3

\* The lengths of the segments tried: empty, inline, the first length with
\* a 1-byte extension (13) and the first with a 2-byte extension (269).
SegmentLengths == {0, 2, 13, 269}

\* A segment of n bytes whose bytes all are b.
Segment(n, b) == [k \in 1 .. n |-> b]

\* The options of number num with the segment lengths lens; the bytes of a
\* segment tell its number and its place.
SegmentOptions(num, lens) ==
    [k \in 1 .. Len(lens) |->
        [num |-> num, value |-> Segment(lens[k], 8 * num + k)]]

\* The nibble and the extension bytes that encode a delta or a length v.
EncodeNibble(v) == IF v < 13 THEN v ELSE IF v < 269 THEN 13 ELSE 14

EncodeExt(v) ==
    IF v < 13 THEN <<>>
    ELSE IF v < 269 THEN <<v - 13>>
    ELSE <<(v - 269) \div 256, (v - 269) % 256>>

\* The bytes of the options opts from the k-th on, prev being the number of
\* the option before.
RECURSIVE EncodeOptions(_, _, _)
EncodeOptions(opts, k, prev) ==
    IF k > Len(opts) THEN <<>>
    ELSE LET delta == opts[k].num - prev
             len   == Len(opts[k].value)
         IN  <<EncodeNibble(delta) * 16 + EncodeNibble(len)>>
               \o EncodeExt(delta) \o EncodeExt(len) \o opts[k].value
               \o EncodeOptions(opts, k + 1, opts[k].num)

\* Options that are neither Uri-Path nor Uri-Query: before the path
\* (Uri-Host, 3), between path and query (Content-Format, 12) and after the
\* query (Accept, 17, and one reached by a 2-byte delta).
HostOption    == <<[num |-> 3, value |-> <<104, 111>>]>>
FormatOption  == <<[num |-> 12, value |-> <<47>>]>>
LaterOptions  == <<[num |-> 17, value |-> <<63>>],
                   [num |-> 17 + 269 + 1, value |-> Segment(13, 47)]>>

\* The lists of segment lengths tried, each with the number of its
\* segments that are path segments; the others are query segments.
SegmentSplits ==
    { q \in SeqsUpTo(SegmentLengths, MaxSegments) \X (0 .. MaxSegments) :
        q[2] <= Len(q[1]) }

\* The option sequence of a split: path segments, then query segments,
\* alone or among other options.
CoapOptionList(q, others) ==
    LET ps == SubSeq(q[1], 1, q[2])
        qs == SubSeq(q[1], q[2] + 1, Len(q[1]))
    IN  IF others
        THEN HostOption \o SegmentOptions(COAP_URI_PATH, ps) \o FormatOption
               \o SegmentOptions(COAP_URI_QUERY, qs) \o LaterOptions
        ELSE SegmentOptions(COAP_URI_PATH, ps)
               \o SegmentOptions(COAP_URI_QUERY, qs)

\* The messages tried around the path and query options: a non-confirmable
\* GET without token, other options or payload, or a confirmable POST with
\* a 2-byte token, other options, the payload marker and a payload.
CoapFrames ==
    { [header |-> <<80, 1, 117, 242>>, others |-> FALSE, payload |-> <<>>],
      [header |-> <<66, 2, 0, 1, 170, 187>>, others |-> TRUE,
       payload |-> <<255, 1, 2>>] }

\* Buffers that no list of options encodes: a delta nibble of 15, a length
\* nibble of 15, alone or after a Uri-Path option; a value, an extension or
\* a header cut short; a token longer than the message.
CoapRawBuffers ==
    { <<80, 1, 0, 1, 241, 97>>,
      <<80, 1, 0, 1, 15>>,
      <<80, 1, 0, 1, 177, 97, 240>>,
      <<80, 1, 0, 1, 177, 97, 15, 98>>,
      <<80, 1, 0, 1, 178, 97>>,
      <<80, 1, 0, 1, 209>>,
      <<80, 1, 0, 1>>,
      <<80>>,
      <<88, 1, 0, 1>> }

InitCoap ==
    /\ \/ \E q \in SegmentSplits, f \in CoapFrames :
            LET opts == CoapOptionList(q, f.others)
            IN  /\ coap_options = [encoded |-> TRUE, options |-> opts]
                /\ data = f.header \o EncodeOptions(opts, 1, 0) \o f.payload
       \/ /\ coap_options = [encoded |-> FALSE, options |-> <<>>]
          /\ data \in CoapRawBuffers
    /\ max_read = -1
    /\ cpc = "header"
    /\ coap_pos = 0
    /\ option_num = 0
    /\ bytes_read = 0
    /\ msg_length = 0
    /\ coap_turn = 0
    /\ coap_message = NoCoapMessage

coap_parse_method(code) ==
    CASE code = 1 -> "HTTP_GET"
      [] code = 2 -> "HTTP_POST"
      [] code = 3 -> "HTTP_PUT"
      [] code = 4 -> "HTTP_DELETE"
      [] OTHER -> "HTTP_UNKNOWN"

\* Mutant: the prefix is '/' for Uri-Query too.
coap_parse_uri_option_slash(msg, num, olen, pos) ==
    [msg EXCEPT
        !.uri_set = TRUE,
        !.uri = SubSeq(@, 1, msg.uri_len) \o <<47>>
                  \o SubSeq(data, pos + 1, pos + olen),
        !.uri_len = (@ + olen + 1) % Uint16]

\* coap_parse_uri_option: the prefix ('/' is 47, '?' is 63) and the olen
\* bytes at data are written at uri_len, which advances by length + 1.
coap_parse_uri_option(msg, num, olen, pos) ==
    [msg EXCEPT
        !.uri_set = TRUE,
        !.uri = SubSeq(@, 1, msg.uri_len)
                  \o <<IF num = COAP_URI_PATH THEN 47 ELSE 63>>
                  \o SubSeq(data, pos + 1, pos + olen),
        !.uri_len = (@ + olen + 1) % Uint16]

\* coap_parse_message up to the call of coap_parse_options.
CoapParseHeader ==
    /\ cpc = "header"
    /\ ReadsUpTo(1)
    /\ IF ~InData(1)
       THEN /\ cpc' = "fault"
            /\ UNCHANGED <<coap_pos, option_num, bytes_read, msg_length,
                           coap_message>>
       ELSE LET token_length  == Byte(data, 0) % 16
                header_length == (4 + token_length) % Uint8
            IN  /\ cpc' = "options"
                /\ coap_pos' = header_length
                /\ option_num' = 0
                /\ bytes_read' = 0
                /\ msg_length' = (Len(data) - header_length) % Uint16
                /\ coap_message' =
                     [type |-> (Byte(data, 0) \div 16) % 4,
                      method |-> coap_parse_method(Byte(data, 1)),
                      uri_set |-> FALSE, uri |-> <<>>, uri_len |-> 0]
    /\ UNCHANGED <<data, coap_options, coap_turn>>
    /\ UNCHANGED <<dnsParseVars, lookupVars, httpVars, dhcpVars, nftVars>>
    /\ UNCHANGED <<timeoutVars, periodVars, queueVars, dnsVars, workerVars>>

\* The extension of a nibble v read at index at: <<value, bytes taken>>.
Extended(v, at) ==
    CASE v = 13 -> <<Byte(data, at) + 13, 1>>
      [] v = 14 -> <<(U16(data, at) + 269) % Uint16, 2>>
      [] OTHER  -> <<v, 0>>

\* One turn of the while loop of coap_parse_options, or its exit.  A nibble
\* of 15 makes the loop `continue`: the condition is tested again with data
\* and bytes_read as they were.  coap_turn tells one turn from the next.
CoapOptionStep ==
    /\ cpc = "options"
    /\ coap_turn' = 1 - coap_turn
    /\ IF ~(bytes_read < msg_length)
       THEN /\ cpc' = "done"
            /\ UNCHANGED <<max_read, coap_pos, option_num, bytes_read,
                           coap_message>>
       ELSE IF ~InData(coap_pos)
       THEN /\ cpc' = "fault"
            /\ ReadsUpTo(coap_pos)
            /\ UNCHANGED <<coap_pos, option_num, bytes_read, coap_message>>
       ELSE IF Byte(data, coap_pos) = 255
       THEN /\ cpc' = "done"
            /\ ReadsUpTo(coap_pos)
            /\ UNCHANGED <<coap_pos, option_num, bytes_read, coap_message>>
       ELSE
         LET d0 == Byte(data, coap_pos) \div 16
             l0 == Byte(data, coap_pos) % 16
             delta_len  == IF d0 = 13 THEN 1 ELSE IF d0 = 14 THEN 2 ELSE 0
             length_len == IF l0 = 13 THEN 1 ELSE IF l0 = 14 THEN 2 ELSE 0
         IN  IF d0 = 15
             THEN /\ ReadsUpTo(coap_pos)
                  /\ UNCHANGED <<cpc, coap_pos, option_num, bytes_read,
                                 coap_message>>
             ELSE IF ~InData(coap_pos + delta_len)
             THEN /\ cpc' = "fault"
                  /\ ReadsUpTo(coap_pos + delta_len)
                  /\ UNCHANGED <<coap_pos, option_num, bytes_read,
                                 coap_message>>
             ELSE IF l0 = 15
             THEN /\ ReadsUpTo(coap_pos + delta_len)
                  /\ option_num' =
                       (option_num + Extended(d0, coap_pos + 1)[1]) % Uint16
                  /\ UNCHANGED <<cpc, coap_pos, bytes_read, coap_message>>
             ELSE IF ~InData(coap_pos + delta_len + length_len)
             THEN /\ cpc' = "fault"
                  /\ ReadsUpTo(coap_pos + delta_len + length_len)
                  /\ UNCHANGED <<coap_pos, option_num, bytes_read,
                                 coap_message>>
             ELSE
               LET num == (option_num + Extended(d0, coap_pos + 1)[1])
                             % Uint16
                   option_length ==
                       Extended(l0, coap_pos + 1 + delta_len)[1]
                   value == coap_pos + 1 + delta_len + length_len
                   uri_option == num \in {COAP_URI_PATH, COAP_URI_QUERY}
                   last_read ==
                       IF uri_option /\ option_length > 0
                       THEN value + option_length - 1
                       ELSE value - 1
               IN  /\ ReadsUpTo(last_read)
                   /\ IF ~InData(last_read)
                      THEN /\ cpc' = "fault"
                           /\ UNCHANGED <<coap_pos, option_num, bytes_read,
                                          coap_message>>
                      ELSE /\ cpc' = "options"
                           /\ option_num' = num
                           /\ coap_message' =
                                IF uri_option
                                THEN coap_parse_uri_option(coap_message, num,
                                         option_length, value)
                                ELSE coap_message
                           /\ coap_pos' = value + option_length
                           /\ bytes_read' =
                                (bytes_read + 1 + delta_len + length_len
                                   + option_length) % Uint16
    /\ UNCHANGED <<data, coap_options, msg_length>>
    /\ UNCHANGED <<dnsParseVars, lookupVars, httpVars, dhcpVars, nftVars>>
    /\ UNCHANGED <<timeoutVars, periodVars, queueVars, dnsVars, workerVars>>

(***************************************************************************)
(* DHCP parser (parsers/dhcp.c): the options of a message                  *)
(***************************************************************************)
DHCP_MAX_OPTION_COUNT == 20
DHCP_MAGIC_COOKIE == 1669485411
DHCP_PAD == 0
DHCP_MESSAGE_TYPE == 53
DHCP_END == 255

\* The magic cookie as it stands in a message: 63 82 53 63.
CookieBytes == <<99, 130, 83, 99>>

\* The first four bytes of the options areas tried: the cookie, the cookie
\* with one byte changed, its bytes in the opposite order, and zeros.
Cookies ==
    { CookieBytes,
      <<98, 130, 83, 99>>, <<99, 131, 83, 99>>, <<99, 130, 82, 99>>,
      <<99, 130, 83, 100>>, <<99, 83, 130, 99>>, <<0, 0, 0, 0>> }

\* What follows the cookie: a message type and the end; a message type, a
\* requested address, a pad and the end; the end alone; pads and the end;
\* more options than DHCP_MAX_OPTION_COUNT; eight times as many; an option
\* of length 0; a message type without end; nothing.
OptionBodies ==
    { <<53, 1, 1, 255>>,
      <<53, 1, 3, 50, 4, 192, 168, 1, 2, 0, 255>>,
      <<255>>,
      <<0, 0, 255>>,
      Segment(DHCP_MAX_OPTION_COUNT, 0) \o <<53, 1, 5, 255>>,
      Segment(8 * DHCP_MAX_OPTION_COUNT, 0) \o <<255>>,
      <<12, 0, 255>>,
      <<53, 1, 1>>,
      <<>> }

\* What the stack may hold where options.message_type is.
GarbageTypes == {0, 5}

InitDhcp ==
    /\ \/ \E c \in Cookies, b \in OptionBodies : data = c \o b
       \/ data = <<99, 130>>
    /\ max_read = -1
    /\ dhpc = "cookie"
    /\ dhcp_offset = 0
    /\ max_option_count = DHCP_MAX_OPTION_COUNT
    /\ \E g \in GarbageTypes : dhcp_options = UnwrittenOptions(g)
    /\ dhcp_allocs = 0
    /\ dhcp_frees = <<>>

\* Mutant: the four bytes are taken in host order of a little-endian
\* machine, without ntohl.
magic_cookie_host_order(d) ==
    Byte(d, 0) + 256 * Byte(d, 1) + 65536 * (Byte(d, 2) + 256 * Byte(d, 3))

\* uint32_t magic_cookie = ntohl(*((uint32_t *) data))
magic_cookie(d) == U16(d, 0) * 65536 + U16(d, 2)

\* dhcp_parse_options up to its do-while loop: the count is set to 0, the
\* cookie is compared, and with another cookie the options are returned as
\* they are; else the array of DHCP_MAX_OPTION_COUNT options is allocated.
DhcpParseOptionsBegin ==
    /\ dhpc = "cookie"
    /\ ReadsUpTo(3)
    /\ IF ~InData(3)
       THEN /\ dhpc' = "fault"
            /\ UNCHANGED <<dhcp_offset, dhcp_options, dhcp_allocs>>
       ELSE IF magic_cookie(data) # DHCP_MAGIC_COOKIE
       THEN /\ dhpc' = "parsed"
            /\ dhcp_options' = [dhcp_options EXCEPT !.count = 0]
            /\ UNCHANGED <<dhcp_offset, dhcp_allocs>>
       ELSE /\ dhpc' = "options"
            /\ dhcp_allocs' = dhcp_allocs + 1
            /\ dhcp_options' = [dhcp_options EXCEPT !.count = 0,
                                                    !.allocated = TRUE,
                                                    !.block = dhcp_allocs + 1]
            /\ dhcp_offset' = 4
    /\ UNCHANGED <<data, max_option_count, dhcp_frees>>
    /\ UNCHANGED <<dnsParseVars, lookupVars, httpVars, coapVars, nftVars>>
    /\ UNCHANGED <<timeoutVars, periodVars, queueVars, dnsVars, workerVars>>

\* dhcp_parse_option at offset off, next being the number of the block a
\* malloc would return: the option, the new offset, the index of the last
\* byte read.
dhcp_parse_option(off, next) ==
    IF ~InData(off)
    THEN [option |-> [code |-> -1, length |-> 0, value |-> NULL,
                      bytes |-> <<>>],
          offset |-> off, last_read |-> off]
    ELSE IF Byte(data, off) \in {DHCP_PAD, DHCP_END}
    THEN [option |-> [code |-> Byte(data, off), length |-> 0,
                      value |-> NULL, bytes |-> <<>>],
          offset |-> (off + 1) % Uint16, last_read |-> off]
    ELSE IF ~InData(off + 1)
    THEN [option |-> [code |-> Byte(data, off), length |-> 0,
                      value |-> NULL, bytes |-> <<>>],
          offset |-> off, last_read |-> off + 1]
    ELSE LET len == Byte(data, off + 1)
         IN  [option |-> [code |-> Byte(data, off), length |-> len,
                          value |-> next,
                          bytes |-> IF InData(off + 1 + len)
                                    THEN SubSeq(data, off + 3, off + 2 + len)
                                    ELSE <<>>],
              offset |-> (off + 2 + len) % Uint16,
              last_read |-> off + 1 + len]

\* One turn of the do-while loop of dhcp_parse_options: the array doubles
\* when it is full (max_option_count is a uint8_t), an option is parsed, a
\* message type is stored, the option is written at count; after the option
\* DHCP_END the array is shrunk and the options are returned.
DhcpOptionStep ==
    /\ dhpc = "options"
    /\ LET max == IF dhcp_options.count = max_option_count
                  THEN (max_option_count * 2) % Uint8
                  ELSE max_option_count
           r   == dhcp_parse_option(dhcp_offset, dhcp_allocs + 1)
           opt == r.option
       IN  /\ ReadsUpTo(r.last_read)
           /\ max_option_count' = max
           /\ IF \/ ~InData(r.last_read)
                 \/ (opt.code = DHCP_MESSAGE_TYPE /\ opt.length = 0)
                 \/ dhcp_options.count >= max
              THEN /\ dhpc' = "fault"
                   /\ UNCHANGED <<dhcp_offset, dhcp_options, dhcp_allocs>>
              ELSE /\ dhcp_offset' = r.offset
                   /\ dhcp_allocs' = IF opt.value # NULL
                                     THEN dhcp_allocs + 1 ELSE dhcp_allocs
                   /\ dhcp_options' =
                        [dhcp_options EXCEPT
                           !.message_type =
                              IF opt.code = DHCP_MESSAGE_TYPE
                              THEN opt.bytes[1] ELSE @,
                           !.type_written =
                              @ \/ opt.code = DHCP_MESSAGE_TYPE,
                           !.options = Append(@, opt),
                           !.count = (@ + 1) % Uint8]
                   /\ dhpc' = IF opt.code = DHCP_END
                              THEN "parsed" ELSE "options"
    /\ UNCHANGED <<data, dhcp_frees>>
    /\ UNCHANGED <<dnsParseVars, lookupVars, httpVars, coapVars, nftVars>>
    /\ UNCHANGED <<timeoutVars, periodVars, queueVars, dnsVars, workerVars>>

\* The values of the first n options that dhcp_free_message frees.
RECURSIVE FreedValues(_, _)
FreedValues(opts, n) ==
    IF n = 0 THEN <<>>
    ELSE FreedValues(opts, n - 1)
           \o (IF opts[n].length > 0 THEN <<opts[n].value>> ELSE <<>>)

\* dhcp_free_message: with a count above 0, the value of every option of
\* length above 0 is freed, then the array of options.
DhcpFreeMessage ==
    /\ dhpc = "parsed"
    /\ dhpc' = "freed"
    /\ dhcp_frees' =
         IF dhcp_options.count > 0
         THEN dhcp_frees
                \o FreedValues(dhcp_options.options, dhcp_options.count)
                \o <<dhcp_options.block>>
         ELSE dhcp_frees
    /\ UNCHANGED <<data, max_read, dhcp_offset, max_option_count,
                   dhcp_options, dhcp_allocs>>
    /\ UNCHANGED <<dnsParseVars, lookupVars, httpVars, coapVars, nftVars>>
    /\ UNCHANGED <<timeoutVars, periodVars, queueVars, dnsVars, workerVars>>

(***************************************************************************)
(* Rule bridge (rule_utils.c): deleting a rule by its text                 *)
(*                                                                         *)
(* Texts are sequences of characters.  The output of `list chain` holds a  *)
(* line for the chain and one line for each rule, each ending with the     *)
(* handle: "<rule> # handle <N>".                                          *)
(***************************************************************************)
\* Number of rules in the chain.
MaxRules == 2

\* Number of values of an int16_t that are not negative.
Int16Max == 32768

DigitChars == <<"0", "1", "2", "3", "4", "5", "6", "7", "8", "9">>

\* The decimal digits of n >= 0, as printf writes them.
RECURSIVE Digits(_)
Digits(n) ==
    IF n < 10 THEN <<DigitChars[n + 1]>>
    ELSE Digits(n \div 10) \o <<DigitChars[(n % 10) + 1]>>

\* The texts of the rules tried: a rule, two rules whose text holds the
\* text of the first (at its start, at its end), and an unrelated one.
RuleTexts ==
    { <<"d", "p", "o", "r", "t", " ", "8", "0">>,
      <<"d", "p", "o", "r", "t", " ", "8", "0", "8", "0">>,
      <<"u", "d", "p", " ", "d", "p", "o", "r", "t", " ", "8", "0">>,
      <<"s", "p", "o", "r", "t", " ", "1">> }

\* The handles tried: small ones, and handles reached after many rules have
\* been added: above the int16_t range, 65535, and above the uint16_t range.
RuleHandles == {2, 7, 40000, 65535, 65538}

\* The chains tried: rules with distinct handles.
Chains ==
    { c \in SeqsUpTo([text : RuleTexts, handle : RuleHandles], MaxRules) :
        \A j, k \in DOMAIN c : j # k => c[j].handle # c[k].handle }

\* The output of `list chain` for the rules c from the k-th on.
RECURSIVE ListLines(_, _)
ListLines(c, k) ==
    IF k > Len(c) THEN <<>>
    ELSE c[k].text \o <<" ", "#", " ", "h", "a", "n", "d", "l", "e", " ">>
           \o Digits(c[k].handle) \o <<"\n">> \o ListLines(c, k + 1)

Listing(c) ==
    <<"c", "h", "a", "i", "n", " ", "c", " ", "{", " ", "#", " ", "h", "a", "n", "d", "l", "e", " ", "1", "\n">>
      \o ListLines(c, 1) \o <<"}", "\n">>

InitNft ==
    /\ nft_rules \in Chains
    /\ nft_rule = <<"d", "p", "o", "r", "t", " ", "8", "0">>
    /\ rpc = "list"
    /\ nft_buf = <<>>
    /\ nft_handle = 0
    /\ nft_cmds = <<>>
    /\ nft_result = FALSE

\* strstr(text + from - 1, needle) as a position in text, from 1; NULL is 0.
strstr(text, from, needle) ==
    LET found == {k \in from .. (Len(text) - Len(needle) + 1) :
                     SubSeq(text, k, k + Len(needle) - 1) = needle}
    IN  IF found = {} THEN NULL
        ELSE CHOOSE k \in found : \A j \in found : k <= j

\* The position of the first character at or after k that is not white
\* space.
RECURSIVE SkipSpace(_, _)
SkipSpace(text, k) ==
    IF k <= Len(text) /\ text[k] \in {" ", "\n", "\t"}
    THEN SkipSpace(text, k + 1) ELSE k

\* The number written by the digits of text from k on, acc being the value
\* of the digits before; -1 when there is no digit.
RECURSIVE ScanDigits(_, _, _)
ScanDigits(text, k, acc) ==
    IF k <= Len(text) /\ \E d \in DOMAIN DigitChars : DigitChars[d] = text[k]
    THEN ScanDigits(text, k + 1,
            (IF acc < 0 THEN 0 ELSE acc * 10)
              + (CHOOSE d \in DOMAIN DigitChars : DigitChars[d] = text[k]) - 1)
    ELSE acc

\* What %hd stores for the number n: n when an int16_t holds it; else the
\* conversion is undefined, and the value is n cut to 16 bits or the
\* greatest int16_t.
ScannedShort(n) ==
    IF n < Int16Max THEN {n}
    ELSE {IF n % Uint16 >= Int16Max THEN (n % Uint16) - Uint16
          ELSE n % Uint16,
          Int16Max - 1}

\* get_nft_handle(buf), buf being text from position from: the values the
\* call can return.  -1 without "handle" or without a number after it.
get_nft_handle(text, from) ==
    LET handle_str == strstr(text, from, <<"h", "a", "n", "d", "l", "e">>)
        n == ScanDigits(text, SkipSpace(text, handle_str + 6), -1)
    IN  IF handle_str = NULL \/ n < 0 THEN {-1} ELSE ScannedShort(n)

\* delete_nft_rule up to the return of exec_nft_cmd_verbose: the command
\* `list chain` is run once; when it fails the call returns false.
NftListChain ==
    /\ rpc = "list"
    /\ nft_cmds' = Append(nft_cmds, [op |-> "list", handle |-> 0])
    /\ \E ok \in BOOLEAN :
          IF ok
          THEN /\ nft_buf' = Listing(nft_rules)
               /\ rpc' = "handle"
               /\ UNCHANGED nft_result
          ELSE /\ rpc' = "done"
               /\ nft_result' = FALSE
               /\ UNCHANGED nft_buf
    /\ UNCHANGED <<nft_rules, nft_rule, nft_handle>>
    /\ UNCHANGED <<data, max_read, dnsParseVars, lookupVars, httpVars,
                   coapVars, dhcpVars>>
    /\ UNCHANGED <<timeoutVars, periodVars, queueVars, dnsVars, workerVars>>

\* rule_line = strstr(buf, nft_rule); handle = get_nft_handle(rule_line).
\* Without the rule in the output rule_line is NULL and strstr reads
\* through a null pointer.  A handle of -1 makes the call return false.
NftGetHandle ==
    /\ rpc = "handle"
    /\ LET rule_line == strstr(nft_buf, 1, nft_rule)
       IN  IF rule_line = NULL
           THEN /\ rpc' = "fault"
                /\ UNCHANGED <<nft_handle, nft_result>>
           ELSE \E h \in get_nft_handle(nft_buf, rule_line) :
                   /\ nft_handle' = h
                   /\ IF h = -1
                      THEN rpc' = "done" /\ nft_result' = FALSE
                      ELSE rpc' = "delete" /\ UNCHANGED nft_result
    /\ UNCHANGED <<nft_rules, nft_rule, nft_buf, nft_cmds>>
    /\ UNCHANGED <<data, max_read, dnsParseVars, lookupVars, httpVars,
                   coapVars, dhcpVars>>
    /\ UNCHANGED <<timeoutVars, periodVars, queueVars, dnsVars, workerVars>>

\* delete_nft_rule_by_handle: the command is built with the handle written
\* by %hu, and run once; the call returns whether it succeeded.  The
\* command fails when the chain has no rule of that handle, and may fail
\* for other reasons.
NftDeleteByHandle ==
    /\ rpc = "delete"
    /\ LET written == nft_handle % Uint16
       IN  /\ nft_cmds' = Append(nft_cmds,
                                 [op |-> "delete", handle |-> written])
           /\ \E ok \in BOOLEAN :
                 nft_result' =
                    (ok /\ \E k \in DOMAIN nft_rules :
                               nft_rules[k].handle = written)
    /\ rpc' = "done"
    /\ UNCHANGED <<nft_rules, nft_rule, nft_buf, nft_handle>>
    /\ UNCHANGED <<data, max_read, dnsParseVars, lookupVars, httpVars,
                   coapVars, dhcpVars>>
    /\ UNCHANGED <<timeoutVars, periodVars, queueVars, dnsVars, workerVars>>

(***************************************************************************)
(* Worker threads adding to the shared cache, dns_map_add taken statement  *)
(* by statement.  A worker locks the mutex of the interaction of its own   *)
(* policy around the call.                                                 *)
(***************************************************************************)
InitWorkers ==
    /\ InitTimeoutIdle /\ InitPeriodIdle /\ InitQueue /\ InitParsersIdle
    /\ strs = InitStrs
    /\ heap = [b \in Blocks |-> [st |-> "unused", data |-> <<>>]]
    /\ table = {}
    /\ fault = "none"
    /\ adds = 0
    /\ passed = {}
    /\ touched = 0
    /\ expect = [n \in Names |-> NoExpect]
    /\ last_call = NoCall
    /\ interaction \in [Workers -> Interactions]
    /\ mutex = [i \in Interactions |-> 0]
    /\ wpc = [w \in Workers |-> "idle"]
    /\ wloc = [w \in Workers |-> NoLocals]

\* pthread_mutex_lock(&interaction->mutex), then the call
\* dns_map_add(table, name, (ip_list_t){Len(L), array}) begins.
WorkerLock(w) ==
    /\ fault = "none"
    /\ wpc[w] = "idle"
    /\ adds < MaxAdds
    /\ mutex[interaction[w]] = 0
    /\ mutex' = [mutex EXCEPT ![interaction[w]] = w]
    /\ \E name \in StrPtrs, L \in ShortLists :
          LET array == Malloc(heap)
          IN  /\ heap' = [heap EXCEPT ![array] = [st |-> "live", data |-> L]]
              /\ wloc' = [wloc EXCEPT ![w] =
                            [NoLocals EXCEPT !.domain_name = name,
                                             !.ip_count = Len(L),
                                             !.ip_addresses = array]]
              /\ expect' = [expect EXCEPT ![strs[name]] =
                              [present |-> TRUE,
                               ips |-> IF @.present THEN @.ips \o L ELSE L]]
    /\ adds' = adds + 1
    /\ wpc' = [wpc EXCEPT ![w] = "get"]
    /\ UNCHANGED <<strs, table, fault, passed, touched, last_call, interaction>>
    /\ UNCHANGED <<timeoutVars, periodVars, queueVars, parserVars>>

\* dns_entry = dns_map_get(table, domain_name); if (dns_entry != NULL)
WorkerGet(w) ==
    /\ fault = "none"
    /\ wpc[w] = "get"
    /\ wpc' = [wpc EXCEPT ![w] =
                 IF dns_map_get(table, strs, wloc[w].domain_name) # {}
                 THEN "copy" ELSE "set"]
    /\ UNCHANGED <<strs, heap, table, fault, adds, passed, touched, expect,
                   last_call, interaction, mutex, wloc>>
    /\ UNCHANGED <<timeoutVars, periodVars, queueVars, parserVars>>

\* old_ip_list = dns_entry->ip_list; new_ip_list.ip_count = ...;
\* new_ip_list.ip_addresses = malloc(...); the two memcpy
WorkerCopy(w) ==
    /\ fault = "none"
    /\ wpc[w] = "copy"
    /\ LET dns_entry == CHOOSE e \in dns_map_get(table, strs,
                                                  wloc[w].domain_name) : TRUE
           total     == dns_entry.ip_count + wloc[w].ip_count
           new_count == total % IpCountModulus
           new_addrs == Malloc(heap)
           copied    == ReadArray(heap, dns_entry.ip_addresses,
                                  dns_entry.ip_count)
                          \o ReadArray(heap, wloc[w].ip_addresses,
                                       wloc[w].ip_count)
       IN  /\ heap' = [heap EXCEPT ![new_addrs] =
                         [st |-> "live",
                          data |-> SubSeq(copied, 1,
                                     IF new_count <= Len(copied)
                                     THEN new_count ELSE Len(copied))]]
           /\ wloc' = [wloc EXCEPT ![w].old_count = dns_entry.ip_count,
                                   ![w].old_addresses = dns_entry.ip_addresses,
                                   ![w].new_count = new_count,
                                   ![w].new_addresses = new_addrs]
           /\ fault' = IF heap[dns_entry.ip_addresses].st # "live"
                       THEN "use_after_free"
                       ELSE IF total > new_count THEN "heap_overflow"
                       ELSE "none"
    /\ wpc' = [wpc EXCEPT ![w] = "store"]
    /\ UNCHANGED <<strs, table, adds, passed, touched, expect, last_call,
                   interaction, mutex>>
    /\ UNCHANGED <<timeoutVars, periodVars, queueVars, parserVars>>

\* dns_entry->ip_list = new_ip_list;
WorkerStore(w) ==
    /\ fault = "none"
    /\ wpc[w] = "store"
    /\ LET dns_entry == CHOOSE e \in dns_map_get(table, strs,
                                                  wloc[w].domain_name) : TRUE
       IN  table' = (table \ {dns_entry}) \cup
                      {[dns_entry EXCEPT
                          !.ip_count = wloc[w].new_count,
                          !.ip_addresses = wloc[w].new_addresses]}
    /\ wpc' = [wpc EXCEPT ![w] = "free"]
    /\ UNCHANGED <<strs, heap, fault, adds, passed, touched, expect,
                   last_call, interaction, mutex, wloc>>
    /\ UNCHANGED <<timeoutVars, periodVars, queueVars, parserVars>>

\* free(old_ip_list.ip_addresses); free(ip_list.ip_addresses);
WorkerFree(w) ==
    /\ fault = "none"
    /\ wpc[w] = "free"
    /\ heap' = Free(Free(heap, wloc[w].old_addresses), wloc[w].ip_addresses)
    /\ fault' = IF heap[wloc[w].old_addresses].st # "live"
                THEN "double_free" ELSE "none"
    /\ wpc' = [wpc EXCEPT ![w] = "unlock"]
    /\ UNCHANGED <<strs, table, adds, passed, touched, expect, last_call,
                   interaction, mutex, wloc>>
    /\ UNCHANGED <<timeoutVars, periodVars, queueVars, parserVars>>

\* hashmap_set(table, &(dns_entry_t){domain_name, ip_list});
WorkerSet(w) ==
    /\ fault = "none"
    /\ wpc[w] = "set"
    /\ table' = hashmap_set(table, strs,
                    [hash |-> strs[wloc[w].domain_name],
                     domain_name |-> wloc[w].domain_name,
                     ip_count |-> wloc[w].ip_count,
                     ip_addresses |-> wloc[w].ip_addresses])
    /\ wpc' = [wpc EXCEPT ![w] = "unlock"]
    /\ UNCHANGED <<strs, heap, fault, adds, passed, touched, expect,
                   last_call, interaction, mutex, wloc>>
    /\ UNCHANGED <<timeoutVars, periodVars, queueVars, parserVars>>

\* pthread_mutex_unlock(&interaction->mutex) after the call has returned
WorkerUnlock(w) ==
    /\ fault = "none"
    /\ wpc[w] = "unlock"
    /\ mutex' = [mutex EXCEPT ![interaction[w]] = 0]
    /\ wpc' = [wpc EXCEPT ![w] = "idle"]
    /\ wloc' = [wloc EXCEPT ![w] = NoLocals]
    /\ UNCHANGED <<strs, heap, table, fault, adds, passed, touched, expect,
                   last_call, interaction>>
    /\ UNCHANGED <<timeoutVars, periodVars, queueVars, parserVars>>

(***************************************************************************)
(* Specifications                                                          *)
(***************************************************************************)
NextTimeout == IsTimedout

InitSpecTimeout ==
    InitTimeout /\ InitPeriodIdle /\ InitQueue /\ InitDns /\ InitParsersIdle

SpecTimeout == InitSpecTimeout /\ [][NextTimeout]_vars

NextPeriod == PreviousTriggerBegin \/ PreviousTriggerStep \/ PeriodReturn

InitSpecPeriod ==
    InitTimeoutIdle /\ InitPeriod /\ InitQueue /\ InitDns /\ InitParsersIdle

SpecPeriod == InitSpecPeriod /\ [][NextPeriod]_vars

InitSpecTrigger ==
    InitTimeoutIdle /\ InitTrigger /\ InitQueue /\ InitDns /\ InitParsersIdle

NextTrigger == TriggerCall \/ NextPeriod

SpecTrigger == InitSpecTrigger /\ [][NextTrigger]_vars

NextWalk == WalkCall \/ NextPeriod

SpecWalk == InitSpecTrigger /\ [][NextWalk]_vars

\* The call is not stopped: a turn of the loop that can be taken is taken.
FairSpecWalk == SpecWalk /\ WF_vars(PreviousTriggerStep)

NextQueue ==
    \/ KernelEnqueue
    \/ NfqOpen \/ UnbindPf \/ BindPf \/ CreateQueue \/ SetMode
    \/ SetFlagsUidGid \/ SetFlagsSecctx
    \/ RecvPacket \/ RecvEnobufs \/ RecvError
    \/ CallbackPolicy \/ CallbackSetVerdict
    \/ DestroyQueue \/ NfqClose

Next == NextQueue

Init ==
    InitTimeoutIdle /\ InitPeriodIdle /\ InitQueue /\ InitDns /\ InitParsersIdle

Spec == Init /\ [][Next]_vars

NextDnsMap == DnsAdd \/ DnsRemove \/ DnsGet \/ DnsPop

SpecDnsMap == Init /\ [][NextDnsMap]_vars

NextDnsOwner ==
    \/ DnsAddShort \/ DnsRemove \/ DnsGet \/ DnsPop
    \/ CallerOverwriteName \/ CallerOverwriteArray \/ CallerFreeArray

SpecDnsOwner == Init /\ [][NextDnsOwner]_vars

NextDnsWorkers ==
    \E w \in Workers :
        \/ WorkerLock(w) \/ WorkerGet(w) \/ WorkerCopy(w) \/ WorkerStore(w)
        \/ WorkerFree(w) \/ WorkerSet(w) \/ WorkerUnlock(w)

SpecDnsWorkers == InitWorkers /\ [][NextDnsWorkers]_vars

NextDnsParse ==
    \/ DnsParseHeader \/ DnsQuestionsBegin \/ DnsNameBegin \/ DnsNameStep
    \/ DnsQuestionFields \/ DnsAnswersBegin \/ DnsRrFields \/ DnsRdata
    \/ DnsRrDone \/ DnsFreeMessage

InitSpecDnsParse ==
    /\ InitTimeoutIdle /\ InitPeriodIdle /\ InitQueue /\ InitDns
    /\ InitDnsParse /\ InitLookupIdle /\ InitRestIdle

SpecDnsParse == InitSpecDnsParse /\ [][NextDnsParse]_vars

NextDnsLookup == DnsGetIpFromName

InitSpecDnsLookup ==
    /\ InitTimeoutIdle /\ InitPeriodIdle /\ InitQueue /\ InitDns
    /\ data = <<>> /\ max_read = -1 /\ InitDnsParseIdle /\ InitLookup
    /\ InitRestIdle

SpecDnsLookup == InitSpecDnsLookup /\ [][NextDnsLookup]_vars

NextHttp == HttpParseMethod \/ HttpUriStep

InitSpecHttp ==
    /\ InitTimeoutIdle /\ InitPeriodIdle /\ InitQueue /\ InitDns
    /\ InitDnsParseIdle /\ InitLookupIdle /\ InitHttp /\ InitCoapIdle
    /\ InitDhcpIdle /\ InitNftIdle

SpecHttp == InitSpecHttp /\ [][NextHttp]_vars

NextCoap == CoapParseHeader \/ CoapOptionStep

InitSpecCoap ==
    /\ InitTimeoutIdle /\ InitPeriodIdle /\ InitQueue /\ InitDns
    /\ InitDnsParseIdle /\ InitLookupIdle /\ InitHttpIdle /\ InitCoap
    /\ InitDhcpIdle /\ InitNftIdle

SpecCoap == InitSpecCoap /\ [][NextCoap]_vars

\* The parser is not stopped: a turn of the loop that can be taken is taken.
FairSpecCoap == SpecCoap /\ WF_vars(NextCoap)

NextDhcp == DhcpParseOptionsBegin \/ DhcpOptionStep \/ DhcpFreeMessage

InitSpecDhcp ==
    /\ InitTimeoutIdle /\ InitPeriodIdle /\ InitQueue /\ InitDns
    /\ InitDnsParseIdle /\ InitLookupIdle /\ InitHttpIdle /\ InitCoapIdle
    /\ InitDhcp /\ InitNftIdle

SpecDhcp == InitSpecDhcp /\ [][NextDhcp]_vars

NextNft == NftListChain \/ NftGetHandle \/ NftDeleteByHandle

InitSpecNft ==
    /\ InitTimeoutIdle /\ InitPeriodIdle /\ InitQueue /\ InitDns
    /\ data = <<>> /\ max_read = -1
    /\ InitDnsParseIdle /\ InitLookupIdle /\ InitHttpIdle /\ InitCoapIdle
    /\ InitDhcpIdle /\ InitNft

SpecNft == InitSpecNft /\ [][NextNft]_vars

\* The parser is not stopped: a step that can be taken is taken.
FairSpecDnsParse == SpecDnsParse /\ WF_vars(NextDnsParse)

C3_NegativeThresholdNeverTimesOut ==
    (tpc = "done" /\ threshold < 0) => ~timedout

(***************************************************************************)
(* Properties of the activity-period gate                                  *)
(***************************************************************************)
SetMax(S) == CHOOSE x \in S : \A y \in S : y <= x

\* The latest second of a day, at most limit, whose hour and minute match
\* the start fields p (second 0); -1 when there is none.
LatestInDay(p, limit) ==
    LET Hs == IF p.hours = -1 THEN 0 .. 23 ELSE {p.hours}
        Ms(h) == {m \in (IF p.minutes = -1 THEN 0 .. 59 ELSE {p.minutes}) :
                     h * SecPerHour + m * SecPerMin <= limit}
        Hok == {h \in Hs : Ms(h) # {}}
    IN  IF Hok = {} THEN -1
        ELSE LET h == SetMax(Hok)
             IN  h * SecPerHour + SetMax(Ms(h)) * SecPerMin

\* Day number d matches the day-of-month and day-of-week fields of p.
DayMatches(d, p) ==
    /\ p.days = -1 \/ CivilFromDays(d).mday = p.days
    /\ p.dayOfWeek = -1 \/ (d + 4) % 7 = p.dayOfWeek

\* How many months back a matching day is looked for.
MonthsBack == 48

\* The days, up to today, that can hold the most recent match.
CandidateDays(p, today) ==
    IF p.days = -1
    THEN (today - 7) .. today
    ELSE LET c == CivilFromDays(today)
         IN  {DaysFromCivil((c.year * 12 + c.mon - k) \div 12,
                            ((c.year * 12 + c.mon - k) % 12) + 1, p.days) :
                 k \in 0 .. (IF p.dayOfWeek = -1 THEN 3 ELSE MonthsBack)}

\* The most recent time <= t that matches the start fields p: every fixed
\* field equal, second 0; -1 when none is found.
MostRecentMatch(p, t) ==
    LET today == t \div SecPerDay
        limit == t % SecPerDay
        Days  == {d \in CandidateDays(p, today) :
                     /\ d <= today
                     /\ DayMatches(d, p)
                     /\ (d < today \/ LatestInDay(p, limit) # -1)}
    IN  IF Days = {} THEN -1
        ELSE LET d == SetMax(Days)
             IN  d * SecPerDay
                   + LatestInDay(p, IF d = today THEN limit ELSE SecPerDay - 1)

\* The sum of the minute, hour and day fields of the duration, in seconds.
DurationSeconds ==
    DurationFields.minutes * 60 + DurationFields.hours * 3600
        + DurationFields.days * 86400

\* C4: is_in_activity_period is true exactly when the current time lies in
\* [s, s + d), s being the most recent time <= current time that matches
\* the start pattern and d the duration, for every start pattern.
C4_InPeriodIffWithinWindow ==
    ppc = "done" =>
        LET s == MostRecentMatch(StartFields, current_time)
        IN  s # -1 =>
              (in_period <=>
                  (s <= current_time /\ current_time < s + DurationSeconds))

\* The start fixes minute and hour and leaves both day fields "*".
DailyStart ==
    /\ start[1] # "*"
    /\ start[2] # "*"
    /\ start[3] = "*"
    /\ start[4] = "*"

\* The latest h:m at or before t, for a daily start at hour h, minute m.
LatestDaily(h, m, t) ==
    LET at == (t \div 86400) * 86400 + h * 3600 + m * 60
    IN  IF at <= t THEN at ELSE at - 86400

\* C5: for a start that fixes minute and hour only, and a duration under
\* 24 hours, is_in_activity_period is true exactly when the current time is
\* within the duration after the latest h:m at or before it; with start
\* "0 9 * *" and duration "0 1 * *", 09:30 is in, 10:30 and 08:30 are out.
C5_DailyPeriod ==
    (ppc = "done" /\ DailyStart /\ DurationSeconds < 86400) =>
        LET s   == LatestDaily(StartFields.hours, StartFields.minutes,
                               current_time)
            tod == current_time % 86400
        IN  /\ in_period <=> (current_time < s + DurationSeconds)
            /\ (start = <<"0", "9", "*", "*">>
                  /\ duration = <<"0", "1", "*", "*">>) =>
                 /\ tod = 9 * 3600 + 30 * 60 => in_period
                 /\ tod = 10 * 3600 + 30 * 60 => ~in_period
                 /\ tod = 8 * 3600 + 30 * 60 => ~in_period

\* C5 witness: 09:30 is in the period 09:00-10:00 and the walk was not
\* needed; C5_WitnessBefore: 08:30 is out, after a walk to the day before.
C5_Witness ==
    /\ ppc = "done"
    /\ start = <<"0", "9", "*", "*">>
    /\ duration = <<"0", "1", "*", "*">>
    /\ current_time % 86400 = 9 * 3600 + 30 * 60
    /\ in_period

C5_WitnessBefore ==
    /\ ppc = "done"
    /\ start = <<"0", "9", "*", "*">>
    /\ duration = <<"0", "1", "*", "*">>
    /\ current_time % 86400 = 8 * 3600 + 30 * 60
    /\ start_time = current_time - 86400 + 30 * 60
    /\ ~in_period

(***************************************************************************)
(* Properties of previous_trigger                                          *)
(***************************************************************************)
\* The broken-down form of the time previous_trigger returned.
Returned == localtime(start_time)

C25_FixedFieldsKept ==
    ppc = "done" =>
        /\ Returned.sec = 0
        /\ StartFields.minutes # -1 => Returned.min = StartFields.minutes
        /\ StartFields.hours # -1 => Returned.hour = StartFields.hours
        /\ StartFields.days # -1 => Returned.mday = StartFields.days

\* C26: the backward walk of previous_trigger ends, for every current time
\* and every start pattern tried: once the loop is entered, its condition
\* is false after finitely many turns.
C26_WalkTerminates ==
    (ppc = "loop") ~> ~LoopCond(check_tm, current_time, StartFields)

\* C26 witness: a start that fixes both the day of the month and the day
\* of the week has returned, after a walk of more than 300 days.
C26_Witness ==
    /\ ppc = "done"
    /\ StartFields.days # -1
    /\ StartFields.dayOfWeek # -1
    /\ start_time < current_time - 300 * SecPerDay

(***************************************************************************)
(* Properties of the queue worker                                          *)
(***************************************************************************)
\* Number of packets whose nfqueue_callback has returned.
CallbacksDone ==
    Len(received) - (IF qpc \in {"callback", "set_verdict"} THEN 1 ELSE 0)

\* C1 as stated: for every packet delivered to nfqueue_callback exactly one
\* verdict is sent for that packet's id, it is the value the policy callback
\* returned, and it is sent even when the packet id or the payload could
\* not be retrieved.
C1_OneVerdictForPacketId ==
    \A k \in 1 .. CallbacksDone :
        LET sent == {i \in DOMAIN verdicts : verdicts[i].id = received[k].id}
        IN  /\ Cardinality(sent) = 1
            /\ \A i \in sent : verdicts[i].verdict = handed[k].ret

\* C1 amended: for every packet delivered to nfqueue_callback exactly one
\* call of nfq_set_verdict is made, with the value the policy callback
\* returned, also when the id or the payload could not be retrieved; the
\* call carries the packet's id when it was retrieved and -1 otherwise.
C1_OneVerdictPerCallback ==
    /\ Len(verdicts) = CallbacksDone
    /\ \A k \in 1 .. CallbacksDone :
          /\ k \in DOMAIN verdicts
          /\ verdicts[k].pkt = received[k]
          /\ verdicts[k].verdict = handed[k].ret
          /\ verdicts[k].id =
                (IF received[k].has_hdr THEN received[k].id ELSE -1)

\* C1 witness: a verdict NF_DROP was sent for a packet whose id could not
\* be read and one for a packet whose payload could not be read.
C1_Witness ==
    /\ \E k \in DOMAIN verdicts :
          /\ ~verdicts[k].pkt.has_hdr
          /\ verdicts[k].id = -1
          /\ verdicts[k].verdict = "NF_DROP"
    /\ \E k \in DOMAIN verdicts :
          /\ ~verdicts[k].pkt.has_payload
          /\ verdicts[k].data_len = -1
          /\ verdicts[k].pkt.has_hdr

\* C10: within the queue, verdicts are sent in the order in which the
\* packets were received: the k-th verdict is that of the k-th received
\* packet, and a packet is handed to the policy callback only when every
\* packet received before it has its verdict.
C10_VerdictsInReceiveOrder ==
    /\ \A k \in DOMAIN verdicts :
          k \in DOMAIN received /\ verdicts[k].pkt = received[k]
    /\ \A k \in DOMAIN handed :
          /\ k \in DOMAIN received /\ handed[k].pkt = received[k]
          /\ \A i \in 1 .. (k - 1) : i \in DOMAIN verdicts

\* C10 witness: the third packet is with the policy callback and the two
\* packets received before it have their verdicts.
C10_Witness ==
    /\ qpc = "set_verdict"
    /\ Len(handed) = 3
    /\ Len(verdicts) = 2
    /\ verdicts[1].pkt.id = 1
    /\ verdicts[2].pkt.id = 2


(***************************************************************************)
(* DNS cache: properties                                                   *)
(***************************************************************************)
\* The entry dns_map_get returns for the name n (when there is one).
EntryOf(n) == CHOOSE e \in hashmap_get(table, strs, n) : TRUE

\* The addresses of an entry: its ip_count first elements of its array.
EntryAddresses(e) == ReadArray(heap, e.ip_addresses, e.ip_count)

\* C6: after dns_map_add calls for a name (absent before the first), the
\* entry dns_map_get returns for it holds the concatenation of the lists
\* added, in call order: ip_count is the total length and the addresses
\* are the lists one after the other, duplicates kept.
C6_AddAppendsInCallOrder ==
    \A n \in Names :
        (expect[n].present /\ hashmap_get(table, strs, n) # {}) =>
            /\ EntryOf(n).ip_count = Len(expect[n].ips)
            /\ EntryAddresses(EntryOf(n)) = expect[n].ips

\* C29: the ip_count of every entry of the cache is the number of
\* addresses that were put into its array: the lengths of the lists added
\* for its name, summed without wrapping in the uint8_t.
C29_IpCountIsNumberOfAddresses ==
    \A e \in table :
        \A n \in Names :
            (expect[n].present /\ e \in hashmap_get(table, strs, n)) =>
                e.ip_count = Len(expect[n].ips)

\* C7: dns_map_get returns an entry exactly for the names added and not
\* removed or popped since; hashmap_count is the number of such names;
\* pop and get return NULL for an absent name and an entry for a present
\* one; remove, pop and get of an absent name leave the table as it was.
C7_KeysAreNamesAddedNotRemoved ==
    /\ \A n \in Names :
          (hashmap_get(table, strs, n) # {}) <=> expect[n].present
    /\ hashmap_count(table) = Cardinality({n \in Names : expect[n].present})
    /\ (last_call.op \in {"remove", "pop", "get"}
          /\ ~last_call.present_before) =>
            (table = last_call.table_before /\ last_call.ret_null)
    /\ (last_call.op \in {"pop", "get"} /\ last_call.present_before) =>
            ~last_call.ret_null

\* C7 witness: after MaxAdds calls of dns_map_add, a present name has been
\* popped while one other name stays in the table.
C7_Witness ==
    /\ last_call.op = "pop"
    /\ last_call.present_before
    /\ ~last_call.ret_null
    /\ hashmap_count(table) = 1
    /\ adds = MaxAdds

\* C8: after dns_map_add(n, L) the entry dns_map_get returns for n keeps the
\* name n and the addresses added for n, whatever the callers do afterwards
\* with the name strings and the arrays they passed (writing to them or
\* freeing them), and no memory fault comes of it.
C8_CacheHoldsOwnCopies ==
    \A n \in Names :
        expect[n].present =>
            /\ fault = "none"
            /\ hashmap_get(table, strs, n) # {}
            /\ strs[EntryOf(n).domain_name] = n
            /\ heap[EntryOf(n).ip_addresses].st = "live"
            /\ EntryAddresses(EntryOf(n)) = expect[n].ips

\* The workers that are executing dns_map_add.
InAdd == {w \in Workers : wpc[w] \in {"get", "copy", "store", "free", "set"}}

\* C9: when every worker calls dns_map_add holding the mutex of its own
\* interaction, no two executions of dns_map_add overlap, and once the
\* workers have returned the entry of each name holds every address added
\* for it, without a memory fault.
C9_AddsSerializedByInteractionMutex ==
    /\ Cardinality(InAdd) <= 1
    /\ (\A w \in Workers : wpc[w] = "idle") =>
          /\ fault = "none"
          /\ \A n \in Names :
                expect[n].present =>
                    /\ hashmap_get(table, strs, n) # {}
                    /\ \A i \in DOMAIN expect[n].ips :
                          \E j \in DOMAIN EntryAddresses(EntryOf(n)) :
                              EntryAddresses(EntryOf(n))[j] = expect[n].ips[i]


(***************************************************************************)
(* bind_queue: set-up before the receive loop                              *)
(***************************************************************************)
\* The calls that must succeed, in the order bind_queue makes them.
FatalSetup == <<"nfq_open", "nfq_unbind_pf", "nfq_bind_pf",
                "nfq_create_queue", "nfq_set_mode">>

\* The calls of the history h that are among the fatal ones, in order.
RECURSIVE FatalPart(_)
FatalPart(h) ==
    IF h = <<>> THEN <<>>
    ELSE IF \E i \in DOMAIN FatalSetup : FatalSetup[i] = Head(h)
    THEN <<Head(h)>> \o FatalPart(Tail(h))
    ELSE FatalPart(Tail(h))

\* The worker has reached its receive loop (or has left it again).
PastSetup ==
    qpc \in {"recv", "callback", "set_verdict", "nfq_destroy_queue",
             "nfq_close", "returned"}

\* C20: the receive loop is entered only after nfq_open, nfq_unbind_pf,
\* nfq_bind_pf, nfq_create_queue and nfq_set_mode have succeeded, in that
\* order; when one of them fails the process exits with a non-zero status
\* and no packet has been received; a failure of one of the two
\* nfq_set_queue_flags calls never makes the process exit.
C20_LoopOnlyAfterSetup ==
    /\ (PastSetup \/ received # <<>>) => FatalPart(setup) = FatalSetup
    /\ qpc = "exited" =>
          /\ exit_status # 0 /\ exit_status # -1
          /\ received = <<>>
          /\ Len(setup) < Len(FatalSetup)
          /\ setup = SubSeq(FatalSetup, 1, Len(setup))
    /\ exit_status # -1 => qpc = "exited"

\* C20 witness: a packet has been received although both calls of
\* nfq_set_queue_flags failed.
C20_Witness ==
    /\ qpc = "callback"
    /\ received # <<>>
    /\ setup = FatalSetup

\* C20, the fatal case: the process has exited because nfq_create_queue
\* failed after the first three calls succeeded.
C20_WitnessExit ==
    /\ qpc = "exited"
    /\ setup = SubSeq(FatalSetup, 1, 3)


(***************************************************************************)
(* DNS parser: properties                                                  *)
(***************************************************************************)
\* C11: dns_parse_domain_name terminates on every input: once the parser is
\* in the loop over the labels and pointers of a name, it leaves it (with a
\* name, or on a memory fault), also when compression pointers form a cycle.
C11_NameParseTerminates ==
    (dpc = "name_loop") ~> (dpc # "name_loop")

\* C12: every byte the DNS parser reads lies at an index below the length
\* of the buffer it was handed.
C12_ReadsInsideBuffer ==
    max_read < Len(data)

\* The number of calls of free made with the pointer p.
TimesFreed(p) == Cardinality({k \in DOMAIN free_calls : free_calls[k] = p})

\* C19: after dns_parse_message and dns_free_message, every block the parse
\* allocated has been freed exactly once, and nothing else has been passed
\* to free.
C19_ParseThenFreeBalanced ==
    dpc = "freed" =>
        /\ \A b \in 1 .. blocks : TimesFreed(b) = 1
        /\ \A k \in DOMAIN free_calls : free_calls[k] \in 1 .. blocks

\* C27: every write of dns_parse_domain_name into the buffer of the decoded
\* name (the characters of a label, the '.' after it, the final '\0') is
\* at an index below the size the buffer has at that moment.
C27_NameWritesInsideBuffer ==
    dfault # "heap_overflow"

(***************************************************************************)
(* dns_get_ip_from_name: properties                                        *)
(***************************************************************************)
\* The names reachable from the name n through CNAME records of the list
\* answers, n included, whatever the position of the records.
RECURSIVE ReachFrom(_, _)
ReachFrom(S, answers) ==
    LET more == S \cup {answers[k].rdata :
                          k \in {j \in DOMAIN answers :
                                   /\ answers[j].rtype = CNAME
                                   /\ answers[j].name \in S}}
    IN  IF more = S THEN S ELSE ReachFrom(more, answers)

\* The positions of the A and AAAA records whose owner is reachable from n.
AddressRecords(n, answers) ==
    {k \in DOMAIN answers :
        /\ answers[k].rtype \in {A, AAAA}
        /\ answers[k].name \in ReachFrom({n}, answers)}

\* The rdata of the records at the positions P, in the order of the list.
RECURSIVE PayloadsAt(_, _, _)
PayloadsAt(P, answers, k) ==
    IF k > Len(answers) THEN <<>>
    ELSE (IF k \in P THEN <<answers[k].rdata>> ELSE <<>>)
           \o PayloadsAt(P, answers, k + 1)

\* The addresses of an ip_list_t.
ListAddresses(l) == SubSeq(l.ip_addresses, 1, l.ip_count)

\* C13: dns_get_ip_from_name returns, in the order of the list, the address
\* of every A and AAAA record whose owner is the name sought or is reachable
\* from it through CNAME records of the list, wherever those records stand
\* in the list; with no such record it returns count 0 and no array.
C13_AllReachableAddresses ==
    lpc = "done" =>
        /\ ListAddresses(lk_result) =
              PayloadsAt(AddressRecords(lk_name, lk_answers), lk_answers, 1)
        /\ lk_result.ip_count = Cardinality(AddressRecords(lk_name, lk_answers))
        /\ (AddressRecords(lk_name, lk_answers) = {}) =>
              (lk_result.ip_count = 0 /\ ~lk_result.allocated)

\* C14: every address dns_get_ip_from_name returns is the rdata of an A or
\* AAAA record of the list whose owner is the name sought or is reachable
\* from it through CNAME records of the list.
C14_OnlyReachableAddresses ==
    lpc = "done" =>
        /\ lk_result.ip_count = Len(lk_result.ip_addresses)
        /\ \A j \in DOMAIN lk_result.ip_addresses :
              \E k \in AddressRecords(lk_name, lk_answers) :
                  lk_answers[k].rdata = lk_result.ip_addresses[j]

\* C14 witness: an address reached through a CNAME record has been returned
\* from a list that also holds an A record of a name that is not reachable.
C14_Witness ==
    /\ lpc = "done"
    /\ lk_result.ip_count = 1
    /\ lk_result.ip_addresses[1] = <<"ipv4 of", "m.example">>
    /\ \E k \in DOMAIN lk_answers :
          /\ lk_answers[k].rtype = A
          /\ lk_answers[k].name = "x.example"

(***************************************************************************)
(* HTTP parser: properties                                                 *)
(***************************************************************************)
\* The first word of the payload: its characters before the first space.
RECURSIVE WordFrom(_, _)
WordFrom(d, k) ==
    IF k > Len(d) \/ d[k] = " " THEN <<>>
    ELSE <<d[k]>> \o WordFrom(d, k + 1)

\* C15: http_parse_message reports a request exactly when the destination
\* port is 80 and the first word of the payload is one of GET, HEAD, POST,
\* PUT, DELETE, CONNECT, OPTIONS, TRACE; otherwise is_request is false, the
\* method is HTTP_UNKNOWN and the uri is not set.
C15_RequestIffPort80AndMethod ==
    hpc = "done" =>
        /\ http_message.is_request <=>
              (dst_port = 80 /\ WordFrom(data, 1) \in MethodTokens)
        /\ ~http_message.is_request =>
              (http_message.method = "HTTP_UNKNOWN" /\ ~http_message.uri_set)

(***************************************************************************)
(* CoAP parser: properties                                                 *)
(***************************************************************************)
\* C16: coap_parse_options stops at an option header byte, other than the
\* payload marker 0xFF, whose delta nibble or length nibble is 15: the loop
\* over the options, once entered, is left on every input.
C16_OptionsParseTerminates == (cpc = "options") ~> (cpc # "options")

\* The uri of the options opts from the k-th on: each Uri-Path segment after
\* a '/', each Uri-Query segment after a '?', nothing for other options.
RECURSIVE UriOf(_, _)
UriOf(opts, k) ==
    IF k > Len(opts) THEN <<>>
    ELSE (CASE opts[k].num = COAP_URI_PATH  -> <<47>> \o opts[k].value
            [] opts[k].num = COAP_URI_QUERY -> <<63>> \o opts[k].value
            [] OTHER -> <<>>)
           \o UriOf(opts, k + 1)

\* C17: for a message encoded from Uri-Path options followed by Uri-Query
\* options, whatever the encoding of their lengths and whatever other
\* options stand among them, the uri parsed is '/' and each path segment,
\* then '?' and each query segment, in the order of the options.
C17_UriFromPathAndQuery ==
    (cpc = "done" /\ coap_options.encoded) =>
        /\ SubSeq(coap_message.uri, 1, coap_message.uri_len)
              = UriOf(coap_options.options, 1)
        /\ coap_message.uri_len = Len(coap_message.uri)

\* C17 witness: a message has been parsed whose uri holds a path segment
\* with a 2-byte length extension, one with a 1-byte extension and a query
\* segment, among options of other numbers.
C17_Witness ==
    /\ cpc = "done"
    /\ coap_options.encoded
    /\ \E k \in DOMAIN coap_options.options :
          coap_options.options[k].num = 3
    /\ \E j, k \in DOMAIN coap_options.options :
          /\ coap_options.options[j].num = COAP_URI_PATH
          /\ Len(coap_options.options[j].value) = 269
          /\ coap_options.options[k].num = COAP_URI_PATH
          /\ Len(coap_options.options[k].value) = 13
    /\ \E k \in DOMAIN coap_options.options :
          /\ coap_options.options[k].num = COAP_URI_QUERY
          /\ Len(coap_options.options[k].value) = 2
    /\ coap_message.uri_len = 269 + 13 + 2 + 3

(***************************************************************************)
(* DHCP parser: properties                                                 *)
(***************************************************************************)
\* The options area starts with four bytes that are not the magic cookie.
WrongCookie == Len(data) >= 4 /\ SubSeq(data, 1, 4) # CookieBytes

\* C18: when the four bytes at the start of the options area are not the
\* magic cookie, dhcp_parse_options reads no option: the options returned
\* have count 0, no message type has been written, nothing was allocated,
\* and dhcp_free_message frees nothing.
C18_WrongCookieNoOptions ==
    (WrongCookie /\ dhpc \in {"parsed", "freed"}) =>
        /\ dhcp_options.count = 0
        /\ dhcp_options.options = <<>>
        /\ ~dhcp_options.type_written
        /\ dhcp_allocs = 0
        /\ max_read = 3
        /\ dhcp_frees = <<>>

\* C18 witness: an options area with the bytes of the cookie in the
\* opposite order, followed by a message type option, has been parsed and
\* freed.
C18_Witness ==
    /\ dhpc = "freed"
    /\ SubSeq(data, 1, 4) = <<99, 83, 130, 99>>
    /\ Len(data) > 4
    /\ data[5] = DHCP_MESSAGE_TYPE

\* The size of the array of options at the moment the next option is
\* stored: doubled, in the uint8_t, when the array is full.
CapacityAtStore ==
    IF dhcp_options.count = max_option_count
    THEN (max_option_count * 2) % Uint8
    ELSE max_option_count

\* C28: in dhcp_parse_options the size of the array is above the index at
\* which the next option is stored, and the count returned is the number
\* of options stored, however many options come before the end option.
C28_CapacityAboveCount ==
    /\ dhpc = "options" => CapacityAtStore > dhcp_options.count
    /\ (dhpc = "parsed" /\ dhcp_options.allocated) =>
          dhcp_options.count = Len(dhcp_options.options)

(***************************************************************************)
(* bind_queue: the receive loop                                            *)
(***************************************************************************)
\* The worker has left the receive loop.
LoopLeft == qpc \in {"nfq_destroy_queue", "nfq_close", "returned"}

\* C21: a receive failure with ENOBUFS leaves the worker at the next
\* receive; at every receive each packet received so far, before or after
\* such a failure, has got its verdict; the loop is left only by a receive
\* error that is not ENOBUFS, and then the queue is destroyed and the handle
\* closed.
C21_EnobufsKeepsLoop ==
    /\ [][ /\ (enobufs' # enobufs) => (qpc = "recv" /\ qpc' = "recv")
           /\ (~LoopLeft /\ LoopLeft') =>
                 (qpc = "recv" /\ qpc' = "nfq_destroy_queue"
                    /\ enobufs' = enobufs)
           /\ (qpc = "nfq_destroy_queue" /\ qpc' # qpc) => qpc' = "nfq_close"
           /\ (qpc = "nfq_close" /\ qpc' # qpc) => qpc' = "returned" ]_vars
    /\ [](qpc = "recv" => Len(verdicts) = Len(received))

\* C21 witness: the worker is back at the receive after every ENOBUFS
\* failure allowed and every packet queued has got a verdict.
C21_Witness ==
    /\ qpc = "recv"
    /\ enobufs = MaxEnobufs
    /\ Len(verdicts) = MaxPackets
    /\ Len(received) = MaxPackets

(***************************************************************************)
(* Rule bridge: properties                                                 *)
(***************************************************************************)
\* The output of `list chain` holds the text of the rule to delete.
RuleListed == strstr(Listing(nft_rules), 1, nft_rule) # NULL

\* The commands run so far that delete a rule.
DeleteCmds == {j \in DOMAIN nft_cmds : nft_cmds[j].op = "delete"}

\* C22: when the chain cannot be listed, or its listing does not hold the
\* text of the rule, delete_nft_rule returns false and runs no delete
\* command; no command is run a second time.
C22_NoRuleNoDelete ==
    (rpc # "list" /\ (nft_buf = <<>> \/ ~RuleListed)) =>
        /\ rpc \in {"handle", "done"}
        /\ rpc = "done" => ~nft_result
        /\ DeleteCmds = {}
        /\ Len(nft_cmds) = 1

\* C24: for a chain that holds the rule given once, the handle of every
\* delete command delete_nft_rule runs is the handle listed on the line of
\* that rule, whatever other rules the chain holds before or after it
\* (handles within the int16_t range).
C24_DeletesTheRuleGiven ==
    (/\ \A k \in DOMAIN nft_rules : nft_rules[k].handle < Int16Max
     /\ Cardinality({k \in DOMAIN nft_rules :
                        nft_rules[k].text = nft_rule}) = 1) =>
        \A j \in DeleteCmds :
            \E k \in DOMAIN nft_rules :
                /\ nft_rules[k].text = nft_rule
                /\ nft_rules[k].handle = nft_cmds[j].handle

\* C30: when the first "handle N" of the text given to get_nft_handle is
\* that of the rule sought (the rule is the first of the chain),
\* get_nft_handle returns N, whatever N, and the delete command is run for
\* the handle N.
C30_HandleReadAndDeleted ==
    (/\ nft_rules # <<>>
     /\ nft_rules[1].text = nft_rule
     /\ nft_buf # <<>>
     /\ rpc \in {"delete", "done"}) =>
        /\ nft_handle = nft_rules[1].handle
        /\ \A j \in DeleteCmds : nft_cmds[j].handle = nft_rules[1].handle
        /\ rpc = "done" => DeleteCmds # {}

====
